---- MODULE Spec2Model ----
(***************************************************************************)
(* A model of the RSS aggregator of tishmal/RSSHub: the lifecycle          *)
(* (Start/Stop), the resizable worker pool, the tick-driven scheduler, the *)
(* per-feed processing against the repository, and the command-line entry  *)
(* points that reconfigure it.                                             *)
(*                                                                         *)
(* Goroutines are modelled as bags of records (workers, scheduling loops,  *)
(* fetch cycles): a goroutine has no identity beyond its local state.      *)
(* API calls (Start, Stop, Resize, SetInterval) are made by the threads of *)
(* Callers, one step per shared-memory access or blocking point.           *)
(* A read-locked section that holds one read is one step, enabled when no  *)
(* writer holds the lock.                                                  *)
(***************************************************************************)
EXTENDS Integers, Sequences, FiniteSets, Bags, TLC

\* ------------------------------------------------------------------ bounds
NumCallers == 2      \* threads calling the aggregator's API concurrently
NumFeeds == 2        \* rows of the feeds table when feeds with items are processed
MaxWorkersArg == 2   \* largest worker count passed to New or Resize
MaxLive == 3         \* calls that spawn are not begun beyond this many live workers
MaxCycles == 1       \* no tick is delivered while this many fetchFeeds goroutines are live
MaxLoops == 1        \* Start is not begun while more than this many aggregationLoop goroutines are live
MaxClock == 2        \* the timer stops firing once the repository clock reaches this
MaxBacklog == 0      \* no tick is delivered while more than this many jobs are queued
NumLinks == 3        \* distinct article links
MaxItems == 3        \* longest item list a feed returns
MaxWrites == 1       \* times the writer sets settings_changed
MaxSignals == 2     \* termination signals sent to the process running `fetch`
MaxCommands == 1    \* set-interval / set-workers invocations of the control-protocol CLI

\* ------------------------------------------------------- program constants
Second == 2          \* time.Second, in the model's unit of half a second
QueueFactor == 2     \* make(chan *domain.Feed, workersCount*2)

Callers == 1..NumCallers
Links == 1..NumLinks
NoFeed == 0
NoHolder == 0

\* Arguments the callers pass: durations (half seconds) and worker counts.
DurationArgs == {0, 1, Second}
WorkerArgs == 0..MaxWorkersArg

VARIABLES
    \* --- Aggregator struct (the process running `fetch`)
    interval,       \* a.interval
    workersCount,   \* a.workersCount
    isRunning,      \* a.isRunning
    runningMu,      \* writer holding a.runningMu, or NoHolder
    mu,             \* writer holding a.mu, or NoHolder
    ctx,            \* a.ctx: "nil", "live" or "cancelled"
    ticker,         \* a.ticker: [made, stopped, pending]
    jobs,           \* a.jobs: [made, cap, buf, closed]
    \* --- goroutines
    workers,        \* bag of worker goroutines (workerWg counts them)
    loops,          \* bag of aggregationLoop goroutines
    cycles,         \* bag of fetchFeeds goroutines
    crashed,        \* "" or the message of the panic that ended the process
    \* --- threads calling the API
    call,           \* call[c]: the call thread c is in, and the last result
    liveStarts,     \* successful Start returns minus successful Stop returns
    \* --- repository and fetcher
    updatedAt,      \* feeds.updated_at
    clock,          \* time.Now() of the repository's writes
    articles,       \* rows of the articles table, in insertion order
    feedItems,      \* the links of the channel items each feed's URL serves
    \* --- a second invocation of the program (another process)
    cli,            \* the last command run by a separate invocation, and its result
    \* --- settings synchronisation through the repository
    settings,       \* rows of the aggregator table: interval, workers, settings_changed
    writer,         \* the process calling AggregatorManager.SetInterval / SetWorkers
    poll,           \* poll[p]: the CheckAndApplyChanges pass of poller p
    \* --- the `fetch` command of the process that owns the aggregator
    fetch,          \* handleFetch: [pc, sig, sent, got, stops]
    \* --- the control protocol between two invocations
    control         \* [bound, inbox, n]: the listener, the command on its connection

aggVars == <<interval, workersCount, isRunning, runningMu, mu, ctx, ticker, jobs>>
goVars == <<workers, loops, cycles, crashed>>
dbVars == <<updatedAt, clock, articles, feedItems>>
syncVars == <<settings, writer, poll>>
vars == <<aggVars, goVars, call, liveStarts, dbVars, cli, fetch, control, syncVars>>

\* ----------------------------------------------------------------- helpers
Spawn(bag, g) == bag (+) SetToBag({g})
Exit(bag, g) == bag (-) SetToBag({g})
Become(bag, g, h) == Exit(bag, g) (+) SetToBag({h})


\* sync.WaitGroup workerWg: Add(1) precedes every `go a.worker`, Done is
\* deferred in worker, so its counter is the number of live workers.
workerWg == BagCardinality(workers)

NilTicker == [made |-> FALSE, stopped |-> FALSE, pending |-> FALSE]
NilJobs == [made |-> FALSE, cap |-> 0, buf |-> <<>>, closed |-> FALSE]

\* time.NewTicker(d): a running ticker with an empty channel; d <= 0 panics.
NewTicker(d) == [made |-> TRUE, stopped |-> FALSE, pending |-> FALSE]
NewTickerPanics(d) == d <= 0

\* A thread between calls keeps the result of its last call in ret.
IdleCall == [pc |-> "idle", arg |-> 0, ret |-> "none", run |-> FALSE, i |-> 0]
Return(c, r) == [call EXCEPT ![c] = [IdleCall EXCEPT !.ret = r]]
Goto(c, arg, pc) == [call EXCEPT ![c] = [IdleCall EXCEPT !.arg = arg, !.pc = pc, !.ret = "pending"]]

Alive == crashed = ""

\* -------------------------------------------------------------- repository
\* The rows of the feeds table.
Feeds == DOMAIN updatedAt

\* feeds ORDER BY updated_at ASC: the feeds sorted by (updatedAt, id).
Older(f, g) == updatedAt[f] < updatedAt[g] \/ (updatedAt[f] = updatedAt[g] /\ f < g)
RankOf(f) == Cardinality({g \in Feeds : Older(g, f)})
FeedAtRank(r) == CHOOSE f \in Feeds : RankOf(f) = r
Min2(a, b) == IF a < b THEN a ELSE b

\* DB.GetOldestFeeds(limit): SELECT ... ORDER BY updated_at ASC LIMIT $1
GetOldestFeeds(limit) ==
    [k \in 1..Min2(IF limit < 0 THEN 0 ELSE limit, Cardinality(Feeds)) |-> FeedAtRank(k - 1)]

\* DB.ArticleExists(link): SELECT EXISTS(SELECT 1 FROM articles WHERE link = $1)
ArticleExists(link) == \E k \in 1..Len(articles) : articles[k].link = link

\* A row of the articles table; created_at is time.Now() at the insert.
Article(link, feed) == [link |-> link, feed |-> feed, at |-> clock]

\* The INSERT without its ON CONFLICT clause: on the table's UNIQUE(link) a
\* second row with the link is refused with an error.
CreateArticleNoConflictClause(link, feed) ==
    IF ArticleExists(link) THEN [rows |-> articles, err |-> TRUE]
    ELSE [rows |-> Append(articles, Article(link, feed)), err |-> FALSE]

\* DB.CreateArticle: INSERT ... ON CONFLICT (link) DO NOTHING, on a table
\* with UNIQUE(link): the row is added unless a row with the link exists,
\* and a conflict is no error.
CreateArticle(link, feed) ==
    IF ArticleExists(link) THEN [rows |-> articles, err |-> FALSE]
    ELSE [rows |-> Append(articles, Article(link, feed)), err |-> FALSE]

RowsWithLink(l) == Cardinality({k \in 1..Len(articles) : articles[k].link = l})


\* --------------------------------------------------------------- the timer
\* The runtime's timer fires: a tick is put in the ticker's channel (buffer
\* of one) unless the ticker was stopped or the channel still holds a tick.
TickAt(backlog) ==
    /\ Alive
    /\ ticker.made /\ ~ticker.stopped /\ ~ticker.pending
    /\ clock < MaxClock
    /\ BagCardinality(cycles) < MaxCycles
    /\ Len(jobs.buf) <= backlog
    /\ ticker' = [ticker EXCEPT !.pending = TRUE]
    /\ UNCHANGED <<interval, workersCount, isRunning, runningMu, mu, ctx, jobs,
                   goVars, call, liveStarts, dbVars>>
    /\ UNCHANGED <<cli, syncVars, fetch, control>>

Tick == TickAt(MaxBacklog)

\* ------------------------------------------------------ fetchFeeds goroutine
\* feeds are the rows not yet dispatched, seen their updated_at as the query
\* returned it, dropped the feeds of the "Workers are busy" warnings logged.
NewCycle == [pc |-> "read", n |-> 0, feeds |-> <<>>, seen |-> <<>>, dropped |-> <<>>]
SeenAt(feeds) == [i \in 1..Len(feeds) |-> updatedAt[feeds[i]]]

\* A cycle that asks for one feed whatever the worker count.
fetchFeedsReadOne(cy) ==
    /\ Alive /\ BagIn(cy, cycles) /\ cy.pc = "read"
    /\ mu = NoHolder
    /\ cycles' = Become(cycles, cy, [cy EXCEPT !.pc = "query", !.n = 1])
    /\ UNCHANGED <<aggVars, workers, loops, crashed, call, liveStarts, dbVars>>
    /\ UNCHANGED <<cli, syncVars, fetch, control>>

\* fetchFeeds, a.mu.RLock(); workersCount := a.workersCount; a.mu.RUnlock()
fetchFeedsRead(cy) ==
    /\ Alive /\ BagIn(cy, cycles) /\ cy.pc = "read"
    /\ mu = NoHolder
    /\ cycles' = Become(cycles, cy, [cy EXCEPT !.pc = "query", !.n = workersCount])
    /\ UNCHANGED <<aggVars, workers, loops, crashed, call, liveStarts, dbVars>>
    /\ UNCHANGED <<cli, syncVars, fetch, control>>

\* fetchFeeds, feeds := a.db.GetOldestFeeds(workersCount); return when empty
fetchFeedsQuery(cy) ==
    /\ Alive /\ BagIn(cy, cycles) /\ cy.pc = "query"
    /\ LET feeds == GetOldestFeeds(cy.n)
       IN cycles' = IF Len(feeds) = 0 THEN Exit(cycles, cy)
                    ELSE Become(cycles, cy, [cy EXCEPT !.pc = "send", !.feeds = feeds,
                                                       !.seen = SeenAt(feeds)])
    /\ UNCHANGED <<aggVars, workers, loops, crashed, call, liveStarts, dbVars>>
    /\ UNCHANGED <<cli, syncVars, fetch, control>>

Advance(cy) ==
    IF Len(cy.feeds) = 1 THEN Exit(cycles, cy)
    ELSE Become(cycles, cy, [cy EXCEPT !.feeds = Tail(@), !.seen = Tail(@)])

Drop(cy) ==
    IF Len(cy.feeds) = 1 THEN Exit(cycles, cy)
    ELSE Become(cycles, cy, [cy EXCEPT !.feeds = Tail(@), !.seen = Tail(@),
                                       !.dropped = Append(@, Head(cy.feeds))])

\* The send case of the select is ready when the channel has room; a send on
\* a closed channel is ready too, and panics.
SendReady == jobs.made /\ (jobs.closed \/ Len(jobs.buf) < jobs.cap)
CtxDone == ctx = "cancelled"

\* fetchFeeds, case a.jobs <- feed
fetchFeedsSend(cy) ==
    /\ Alive /\ BagIn(cy, cycles) /\ cy.pc = "send"
    /\ SendReady
    /\ IF jobs.closed
       THEN /\ crashed' = "send on closed channel"
            /\ UNCHANGED <<jobs, cycles>>
       ELSE /\ jobs' = [jobs EXCEPT !.buf = Append(@, Head(cy.feeds))]
            /\ cycles' = Advance(cy)
            /\ UNCHANGED crashed
    /\ UNCHANGED <<interval, workersCount, isRunning, runningMu, mu, ctx, ticker,
                   workers, loops, call, liveStarts, dbVars>>
    /\ UNCHANGED <<cli, syncVars, fetch, control>>

\* fetchFeeds, case <-a.ctx.Done(): return
fetchFeedsCancelled(cy) ==
    /\ Alive /\ BagIn(cy, cycles) /\ cy.pc = "send"
    /\ CtxDone
    /\ cycles' = Exit(cycles, cy)
    /\ UNCHANGED <<aggVars, workers, loops, crashed, call, liveStarts, dbVars>>
    /\ UNCHANGED <<cli, syncVars, fetch, control>>

\* A dispatch without the default case: a plain send, which waits for room.
fetchFeedsSkipBlocks(cy) ==
    /\ Alive /\ BagIn(cy, cycles) /\ cy.pc = "send"
    /\ ~SendReady /\ ~CtxDone
    /\ FALSE
    /\ cycles' = Drop(cy)
    /\ UNCHANGED <<aggVars, workers, loops, crashed, call, liveStarts, dbVars>>
    /\ UNCHANGED <<cli, syncVars, fetch, control>>

\* A default case that also marks the skipped feed as updated.
fetchFeedsSkipTouches(cy) ==
    /\ Alive /\ BagIn(cy, cycles) /\ cy.pc = "send"
    /\ ~SendReady /\ ~CtxDone
    /\ cycles' = Drop(cy)
    /\ updatedAt' = [updatedAt EXCEPT ![Head(cy.feeds)] = clock + 1]
    /\ UNCHANGED <<aggVars, workers, loops, crashed, call, liveStarts,
                   clock, articles, feedItems>>
    /\ UNCHANGED <<cli, syncVars, fetch, control>>

\* fetchFeeds, default: the queue is full (or nil), the feed is skipped
fetchFeedsSkip(cy) ==
    /\ Alive /\ BagIn(cy, cycles) /\ cy.pc = "send"
    /\ ~SendReady /\ ~CtxDone
    /\ cycles' = Drop(cy)
    /\ UNCHANGED <<aggVars, workers, loops, crashed, call, liveStarts, dbVars>>
    /\ UNCHANGED <<cli, syncVars, fetch, control>>

fetchFeeds(cy) ==
    \/ fetchFeedsRead(cy)
    \/ fetchFeedsQuery(cy)
    \/ fetchFeedsSend(cy)
    \/ fetchFeedsCancelled(cy)
    \/ fetchFeedsSkip(cy)

\* ------------------------------------------------- aggregationLoop goroutine
\* A loop entering its select evaluates a.ctx.Done() and a.ticker.C; a loop
\* blocked in the select keeps the channels it evaluated.  tk tells whether
\* that ticker is still a.ticker ("cur") or one that has been replaced, with
\* ("oldPending") or without ("oldEmpty") a tick left for this loop; ctxOld
\* tells that its context is one a later Start replaced (and Stop cancelled).
NewLoop == [pc |-> "enter", tk |-> "cur", ctxOld |-> FALSE]

LoopCtxDone(l) == l.ctxOld \/ ctx = "cancelled"
LoopTickReady(l) == (l.tk = "cur" /\ ticker.made /\ ticker.pending) \/ l.tk = "oldPending"

\* aggregationLoop, case <-a.ctx.Done(): return
aggregationLoopReturn(l) ==
    /\ Alive /\ BagIn(l, loops) /\ l.pc # "poll"
    /\ LoopCtxDone(l)
    /\ loops' = Exit(loops, l)
    /\ UNCHANGED <<aggVars, workers, cycles, crashed, call, liveStarts, dbVars>>
    /\ UNCHANGED <<cli, syncVars, fetch, control>>

\* aggregationLoop, case <-a.ticker.C: go a.fetchFeeds()
aggregationLoopTick(l) ==
    /\ Alive /\ BagIn(l, loops) /\ l.pc # "poll"
    /\ LoopTickReady(l)
    /\ ticker' = IF l.tk = "cur" THEN [ticker EXCEPT !.pending = FALSE] ELSE ticker
    /\ loops' = Become(loops, l, NewLoop)
    /\ cycles' = Spawn(cycles, NewCycle)
    /\ UNCHANGED <<interval, workersCount, isRunning, runningMu, mu, ctx, jobs,
                   workers, crashed, call, liveStarts, dbVars>>
    /\ UNCHANGED <<cli, syncVars, fetch, control>>

\* aggregationLoop, the select blocks: no case is ready
aggregationLoopBlock(l) ==
    /\ Alive /\ BagIn(l, loops) /\ l.pc = "enter"
    /\ ~LoopCtxDone(l) /\ ~LoopTickReady(l)
    /\ loops' = Become(loops, l, [l EXCEPT !.pc = "wait"])
    /\ UNCHANGED <<aggVars, workers, cycles, crashed, call, liveStarts, dbVars>>
    /\ UNCHANGED <<cli, syncVars, fetch, control>>

aggregationLoop(l) ==
    \/ aggregationLoopReturn(l)
    \/ aggregationLoopTick(l)
    \/ aggregationLoopBlock(l)


\* ---------------------------------------------------------- worker goroutine
NewWorker(id) == [id |-> id, pc |-> "select", feed |-> NoFeed, idx |-> 0, cnt |-> 0]

\* worker, case feed, ok := <-a.jobs with ok: a.processFeed(id, feed)
workerReceive(w) ==
    /\ Alive /\ BagIn(w, workers) /\ w.pc = "select"
    /\ jobs.made /\ Len(jobs.buf) > 0
    /\ jobs' = [jobs EXCEPT !.buf = Tail(@)]
    /\ workers' = Become(workers, w, [w EXCEPT !.pc = "fetch", !.feed = Head(jobs.buf)])
    /\ UNCHANGED <<interval, workersCount, isRunning, runningMu, mu, ctx, ticker,
                   loops, cycles, crashed, call, liveStarts, dbVars>>
    /\ UNCHANGED <<cli, syncVars, fetch, control>>

\* worker, case <-a.jobs with !ok (closed and drained): return
workerClosed(w) ==
    /\ Alive /\ BagIn(w, workers) /\ w.pc = "select"
    /\ jobs.made /\ jobs.closed /\ Len(jobs.buf) = 0
    /\ workers' = Exit(workers, w)
    /\ UNCHANGED <<aggVars, loops, cycles, crashed, call, liveStarts, dbVars>>
    /\ UNCHANGED <<cli, syncVars, fetch, control>>

\* worker, case <-a.ctx.Done(): return
workerCancelled(w) ==
    /\ Alive /\ BagIn(w, workers) /\ w.pc = "select"
    /\ CtxDone
    /\ workers' = Exit(workers, w)
    /\ UNCHANGED <<aggVars, loops, cycles, crashed, call, liveStarts, dbVars>>
    /\ UNCHANGED <<cli, syncVars, fetch, control>>

\* A channel item without a title or a link, which convertRSSItem refuses.
NoLink == 0

\* A conversion that puts every converted item in front of the earlier ones.
convertToParsedFeedPrepends(items) ==
    LET kept == SelectSeq(items, LAMBDA l : l # NoLink)
    IN [i \in 1..Len(kept) |-> kept[Len(kept) + 1 - i]]

\* Parser.convertToParsedFeed: the items convertRSSItem accepts, appended one
\* after the other.
RECURSIVE convertToParsedFeed(_)
convertToParsedFeed(items) ==
    IF items = <<>> THEN <<>>
    ELSE IF Head(items) = NoLink THEN convertToParsedFeed(Tail(items))
    ELSE <<Head(items)>> \o convertToParsedFeed(Tail(items))

\* Parser.FetchAndParse without an error: the parsed items of the feed.
FetchAndParse(f) == convertToParsedFeed(feedItems[f])

\* processFeed with a loop that leaves out the last item.
NextItemSkipsLast(w) ==
    IF w.idx + 1 < Len(FetchAndParse(w.feed))
    THEN [w EXCEPT !.pc = "exists", !.idx = @ + 1]
    ELSE [w EXCEPT !.pc = "stamp"]

\* processFeed: the loop over parsedFeed.Items moves to the next item, or to
\* the timestamp update after the last one.
NextItem(w) ==
    IF w.idx < Len(FetchAndParse(w.feed))
    THEN [w EXCEPT !.pc = "exists", !.idx = @ + 1]
    ELSE [w EXCEPT !.pc = "stamp"]

\* processFeed, a.parser.FetchAndParse(feed.URL): an error returns at once
processFeedFetch(w) ==
    /\ Alive /\ BagIn(w, workers) /\ w.pc = "fetch"
    /\ \E ok \in BOOLEAN :
          workers' = Become(workers, w,
                        IF ok THEN NextItem(w) ELSE NewWorker(w.id))
    /\ UNCHANGED <<aggVars, loops, cycles, crashed, call, liveStarts, dbVars>>
    /\ UNCHANGED <<cli, syncVars, fetch, control>>

\* processFeed, exists, err := a.db.ArticleExists(item.Link)
processFeedExists(w) ==
    /\ Alive /\ BagIn(w, workers) /\ w.pc = "exists"
    /\ workers' = Become(workers, w,
                    IF ArticleExists(FetchAndParse(w.feed)[w.idx])
                    THEN NextItem(w)
                    ELSE [w EXCEPT !.pc = "create"])
    /\ UNCHANGED <<aggVars, loops, cycles, crashed, call, liveStarts, dbVars>>
    /\ UNCHANGED <<cli, syncVars, fetch, control>>

\* processFeed, a.db.CreateArticle(article); newArticles++
processFeedCreate(w) ==
    /\ Alive /\ BagIn(w, workers) /\ w.pc = "create"
    /\ LET r == CreateArticle(FetchAndParse(w.feed)[w.idx], w.feed)
       IN /\ articles' = r.rows
          /\ workers' = Become(workers, w,
                          IF r.err THEN NextItem(w)
                          ELSE NextItem([w EXCEPT !.cnt = @ + 1]))
    /\ UNCHANGED <<aggVars, loops, cycles, crashed, call, liveStarts,
                   updatedAt, clock, feedItems>>
    /\ UNCHANGED <<cli, syncVars, fetch, control>>

\* DB.UpdateFeedTimestamp: UPDATE feeds SET updated_at = time.Now()
UpdateFeedTimestamp(f) == [updatedAt EXCEPT ![f] = clock + 1]

\* processFeed, a.db.UpdateFeedTimestamp(feed.ID), then back to the select
processFeedStamp(w) ==
    /\ Alive /\ BagIn(w, workers) /\ w.pc = "stamp"
    /\ updatedAt' = UpdateFeedTimestamp(w.feed)
    /\ clock' = clock + 1
    /\ workers' = Become(workers, w, NewWorker(w.id))
    /\ UNCHANGED <<aggVars, loops, cycles, crashed, call, liveStarts,
                   articles, feedItems>>
    /\ UNCHANGED <<cli, syncVars, fetch, control>>

\* The repository calls of processFeed returning an error (connection lost,
\* statement failed): the check and the insert `continue` with the next
\* item, the timestamp update is logged.
processFeedExistsFails(w) ==
    /\ Alive /\ BagIn(w, workers) /\ w.pc = "exists"
    /\ workers' = Become(workers, w, NextItem(w))
    /\ UNCHANGED <<aggVars, loops, cycles, crashed, call, liveStarts, dbVars>>
    /\ UNCHANGED <<cli, syncVars, fetch, control>>

\* A failed insert that returns from processFeed instead of continuing.
processFeedCreateFailsAborts(w) ==
    /\ Alive /\ BagIn(w, workers) /\ w.pc = "create"
    /\ workers' = Become(workers, w, NewWorker(w.id))
    /\ UNCHANGED <<aggVars, loops, cycles, crashed, call, liveStarts, dbVars>>
    /\ UNCHANGED <<cli, syncVars, fetch, control>>

processFeedCreateFails(w) ==
    /\ Alive /\ BagIn(w, workers) /\ w.pc = "create"
    /\ workers' = Become(workers, w, NextItem(w))
    /\ UNCHANGED <<aggVars, loops, cycles, crashed, call, liveStarts, dbVars>>
    /\ UNCHANGED <<cli, syncVars, fetch, control>>

processFeedStampFails(w) ==
    /\ Alive /\ BagIn(w, workers) /\ w.pc = "stamp"
    /\ workers' = Become(workers, w, NewWorker(w.id))
    /\ UNCHANGED <<aggVars, loops, cycles, crashed, call, liveStarts, dbVars>>
    /\ UNCHANGED <<cli, syncVars, fetch, control>>

repositoryFails(w) ==
    \/ processFeedExistsFails(w)
    \/ processFeedCreateFails(w)
    \/ processFeedStampFails(w)

worker(w) ==
    \/ workerReceive(w)
    \/ workerClosed(w)
    \/ workerCancelled(w)
    \/ processFeedFetch(w)
    \/ processFeedExists(w)
    \/ processFeedCreate(w)
    \/ processFeedStamp(w)

\* ------------------------------------------- replacing a.ctx and a.ticker
RECURSIVE SumCopies(_, _)
SumCopies(B, S) ==
    IF S = {} THEN 0
    ELSE LET x == CHOOSE y \in S : TRUE IN B[x] + SumCopies(B, S \ {x})
MapBag(B, F(_)) ==
    [y \in {F(x) : x \in DOMAIN B} |-> SumCopies(B, {x \in DOMAIN B : F(x) = y})]

StaleTk(l) == IF l.pc = "wait" /\ l.tk = "cur" THEN [l EXCEPT !.tk = "oldEmpty"] ELSE l
StaleCtx(l) == IF l.pc = "wait" THEN [l EXCEPT !.ctxOld = TRUE] ELSE l
WaitingOnTicker(ls) == {l \in BagToSet(ls) : l.pc = "wait" /\ l.tk = "cur"}

\* The loops after a.ticker is assigned a new ticker: a loop blocked on the
\* old ticker's channel stays on it; a tick the old ticker had delivered goes
\* to one of the loops blocked on it.
LoopsAfterNewTicker(ls) ==
    IF ticker.made /\ ticker.pending /\ WaitingOnTicker(ls) # {}
    THEN {Spawn(MapBag(Exit(ls, r), StaleTk), [r EXCEPT !.tk = "oldPending"]) :
             r \in WaitingOnTicker(ls)}
    ELSE {MapBag(ls, StaleTk)}

CanSpawn(k) == workerWg + k <= MaxLive


\* ------------------------------------------------------------ Aggregator.Start
\* Start without the isRunning check: the call always goes on to start.
StartCheckNoGuard(c) ==
    /\ Alive /\ call[c].pc = "idle"
    /\ runningMu = NoHolder
    /\ runningMu' = c
    /\ call' = Goto(c, 0, "Start.make")
    /\ UNCHANGED <<interval, workersCount, isRunning, mu, ctx, ticker, jobs,
                   goVars, liveStarts, dbVars>>
    /\ UNCHANGED <<cli, syncVars, fetch, control>>

\* Start, a.runningMu.Lock() and the isRunning check
StartCheck(c) ==
    /\ Alive /\ call[c].pc = "idle"
    /\ runningMu = NoHolder
    /\ IF isRunning
       THEN /\ call' = Return(c, "background process is already running")
            /\ UNCHANGED runningMu
       ELSE /\ CanSpawn(workersCount)
            /\ BagCardinality(loops) < MaxLoops
            /\ BagCardinality(cycles) <= MaxCycles
            /\ clock < MaxClock
            /\ runningMu' = c
            /\ call' = Goto(c, 0, "Start.make")
    /\ UNCHANGED <<interval, workersCount, isRunning, mu, ctx, ticker, jobs,
                   goVars, liveStarts, dbVars>>
    /\ UNCHANGED <<cli, syncVars, fetch, control>>

\* Start, a.ctx, a.cancel = context.WithCancel(ctx); a.jobs = make(chan, workersCount*2)
StartMake(c) ==
    /\ Alive /\ call[c].pc = "Start.make"
    /\ ctx' = "live"
    /\ jobs' = [made |-> TRUE, cap |-> workersCount * QueueFactor, buf |-> <<>>, closed |-> FALSE]
    /\ loops' = MapBag(loops, StaleCtx)
    /\ call' = [call EXCEPT ![c].pc = "Start.spawn", ![c].i = 0]
    /\ UNCHANGED <<interval, workersCount, isRunning, runningMu, mu, ticker,
                   workers, cycles, crashed, liveStarts, dbVars>>
    /\ UNCHANGED <<cli, syncVars, fetch, control>>

\* Start, one iteration of: for i := 0; i < a.workersCount; i++ { Add(1); go a.worker(i + 1) }
StartSpawn(c) ==
    /\ Alive /\ call[c].pc = "Start.spawn"
    /\ call[c].i < workersCount
    /\ workers' = Spawn(workers, NewWorker(call[c].i + 1))
    /\ call' = [call EXCEPT ![c].i = @ + 1]
    /\ UNCHANGED <<aggVars, loops, cycles, crashed, liveStarts, dbVars>>
    /\ UNCHANGED <<cli, syncVars, fetch, control>>

\* Start that leaves the first fetch cycle to the first tick.
StartTickerNoFirstCycle(c) ==
    /\ Alive /\ call[c].pc = "Start.spawn"
    /\ call[c].i >= workersCount
    /\ mu = NoHolder
    /\ ~NewTickerPanics(interval)
    /\ ticker' = NewTicker(interval)
    /\ isRunning' = TRUE
    /\ \E ls \in LoopsAfterNewTicker(loops) : loops' = Spawn(ls, NewLoop)
    /\ runningMu' = NoHolder
    /\ call' = Return(c, "ok")
    /\ liveStarts' = liveStarts + 1
    /\ UNCHANGED <<interval, workersCount, mu, ctx, jobs, workers, cycles, crashed, dbVars>>
    /\ UNCHANGED <<cli, syncVars, fetch, control>>

\* Start, from the end of the spawn loop: the ticker, isRunning = true, the
\* scheduling loop and the first fetch cycle; the deferred unlock; return nil
StartTicker(c) ==
    /\ Alive /\ call[c].pc = "Start.spawn"
    /\ call[c].i >= workersCount
    /\ mu = NoHolder
    /\ IF NewTickerPanics(interval)
       THEN /\ crashed' = "non-positive interval for NewTicker"
            /\ UNCHANGED <<ticker, isRunning, loops, cycles, runningMu, call, liveStarts>>
       ELSE /\ ticker' = NewTicker(interval)
            /\ isRunning' = TRUE
            /\ \E ls \in LoopsAfterNewTicker(loops) : loops' = Spawn(ls, NewLoop)
            /\ cycles' = Spawn(cycles, NewCycle)
            /\ runningMu' = NoHolder
            /\ call' = Return(c, "ok")
            /\ liveStarts' = liveStarts + 1
            /\ UNCHANGED crashed
    /\ UNCHANGED <<interval, workersCount, mu, ctx, jobs, workers, dbVars>>
    /\ UNCHANGED <<cli, syncVars, fetch, control>>

Start(c) == StartCheck(c) \/ StartMake(c) \/ StartSpawn(c) \/ StartTicker(c)

\* ------------------------------------------------------------- Aggregator.Stop
\* Stop without the isRunning check.
StopCheckNoGuard(c) ==
    /\ Alive /\ call[c].pc = "idle"
    /\ runningMu = NoHolder
    /\ runningMu' = c
    /\ ticker' = IF ticker.made THEN [ticker EXCEPT !.stopped = TRUE] ELSE ticker
    /\ call' = Goto(c, 0, "Stop.cancel")
    /\ UNCHANGED <<interval, workersCount, isRunning, mu, ctx, jobs,
                   goVars, liveStarts, dbVars>>
    /\ UNCHANGED <<cli, syncVars, fetch, control>>

\* Stop, a.runningMu.Lock(), the isRunning check and a.ticker.Stop()
StopCheck(c) ==
    /\ Alive /\ call[c].pc = "idle"
    /\ runningMu = NoHolder
    /\ IF ~isRunning
       THEN /\ call' = Return(c, "background process is not running")
            /\ UNCHANGED <<runningMu, ticker>>
       ELSE /\ runningMu' = c
            /\ ticker' = IF ticker.made THEN [ticker EXCEPT !.stopped = TRUE] ELSE ticker
            /\ call' = Goto(c, 0, "Stop.cancel")
    /\ UNCHANGED <<interval, workersCount, isRunning, mu, ctx, jobs,
                   goVars, liveStarts, dbVars>>
    /\ UNCHANGED <<cli, syncVars, fetch, control>>

\* Stop, a.cancel()
StopCancel(c) ==
    /\ Alive /\ call[c].pc = "Stop.cancel"
    /\ ctx' = "cancelled"
    /\ call' = [call EXCEPT ![c].pc = "Stop.close"]
    /\ UNCHANGED <<interval, workersCount, isRunning, runningMu, mu, ticker, jobs,
                   goVars, liveStarts, dbVars>>
    /\ UNCHANGED <<cli, syncVars, fetch, control>>

\* Stop, close(a.jobs): closing a closed channel panics
StopClose(c) ==
    /\ Alive /\ call[c].pc = "Stop.close"
    /\ IF jobs.made /\ jobs.closed
       THEN /\ crashed' = "close of closed channel"
            /\ UNCHANGED <<jobs, call>>
       ELSE /\ jobs' = IF jobs.made THEN [jobs EXCEPT !.closed = TRUE] ELSE jobs
            /\ call' = [call EXCEPT ![c].pc = "Stop.wait"]
            /\ UNCHANGED crashed
    /\ UNCHANGED <<interval, workersCount, isRunning, runningMu, mu, ctx, ticker,
                   workers, loops, cycles, liveStarts, dbVars>>
    /\ UNCHANGED <<cli, syncVars, fetch, control>>

\* Stop, a.workerWg.Wait(): returns once the counter is zero
StopWait(c) ==
    /\ Alive /\ call[c].pc = "Stop.wait"
    /\ workerWg = 0
    /\ call' = [call EXCEPT ![c].pc = "Stop.return"]
    /\ UNCHANGED <<aggVars, goVars, liveStarts, dbVars>>
    /\ UNCHANGED <<cli, syncVars, fetch, control>>

\* Stop, a.isRunning = false; the deferred unlock; return nil
StopReturn(c) ==
    /\ Alive /\ call[c].pc = "Stop.return"
    /\ isRunning' = FALSE
    /\ runningMu' = NoHolder
    /\ call' = Return(c, "ok")
    /\ liveStarts' = liveStarts - 1
    /\ UNCHANGED <<interval, workersCount, mu, ctx, ticker, jobs, goVars, dbVars>>
    /\ UNCHANGED <<cli, syncVars, fetch, control>>

Stop(c) == StopCheck(c) \/ StopCancel(c) \/ StopClose(c) \/ StopWait(c) \/ StopReturn(c)

\* ------------------------------------------------------ Aggregator.SetInterval
\* SetInterval, a.mu.Lock(); a.interval = newInterval; a.mu.Unlock()
SetIntervalStore(c, d) ==
    /\ Alive /\ call[c].pc = "idle"
    /\ mu = NoHolder
    /\ interval' = d
    /\ call' = Goto(c, d, "SetInterval.read")
    /\ UNCHANGED <<workersCount, isRunning, runningMu, mu, ctx, ticker, jobs,
                   goVars, liveStarts, dbVars>>
    /\ UNCHANGED <<cli, syncVars, fetch, control>>

\* SetInterval, isRunning := a.isRunning under RLock; a stopped aggregator returns nil
SetIntervalRead(c) ==
    /\ Alive /\ call[c].pc = "SetInterval.read"
    /\ runningMu = NoHolder
    /\ call' = IF isRunning
               THEN [call EXCEPT ![c].pc = "SetInterval.apply", ![c].run = TRUE]
               ELSE Return(c, "ok")
    /\ UNCHANGED <<aggVars, goVars, liveStarts, dbVars>>
    /\ UNCHANGED <<cli, syncVars, fetch, control>>

\* SetInterval, a.ticker.Stop(); a.ticker = time.NewTicker(newInterval); return nil
SetIntervalApply(c) ==
    /\ Alive /\ call[c].pc = "SetInterval.apply"
    /\ IF ~ticker.made
       THEN /\ call' = Return(c, "ok")
            /\ UNCHANGED <<ticker, loops, crashed>>
       ELSE IF NewTickerPanics(call[c].arg)
       THEN /\ crashed' = "non-positive interval for NewTicker"
            /\ UNCHANGED <<ticker, loops, call>>
       ELSE /\ ticker' = NewTicker(call[c].arg)
            /\ loops' \in LoopsAfterNewTicker(loops)
            /\ call' = Return(c, "ok")
            /\ UNCHANGED crashed
    /\ UNCHANGED <<interval, workersCount, isRunning, runningMu, mu, ctx, jobs,
                   workers, cycles, liveStarts, dbVars>>
    /\ UNCHANGED <<cli, syncVars, fetch, control>>

SetInterval(c) ==
    \/ \E d \in DurationArgs : SetIntervalStore(c, d)
    \/ SetIntervalRead(c)
    \/ SetIntervalApply(c)

\* ----------------------------------------------------------- Aggregator.Resize
\* Resize whose argument check lets zero through.
ResizeCheckOffByOne(c, n) ==
    /\ Alive /\ call[c].pc = "idle"
    /\ IF n < 0
       THEN call' = Return(c, "workers count must be positive")
       ELSE /\ mu = NoHolder
            /\ call' = Goto(c, n, "Resize.read")
    /\ UNCHANGED <<aggVars, goVars, liveStarts, dbVars>>
    /\ UNCHANGED <<cli, syncVars, fetch, control>>

\* Resize, the newWorkersCount <= 0 check and the read of oldCount under a.mu
ResizeCheck(c, n) ==
    /\ Alive /\ call[c].pc = "idle"
    /\ IF n <= 0
       THEN call' = Return(c, "workers count must be positive")
       ELSE /\ mu = NoHolder
            /\ CanSpawn(IF n > workersCount THEN n - workersCount ELSE 0)
            /\ call' = Goto(c, n, "Resize.read")
    /\ UNCHANGED <<aggVars, goVars, liveStarts, dbVars>>
    /\ UNCHANGED <<cli, syncVars, fetch, control>>

\* Resize, isRunning := a.isRunning under RLock
ResizeRead(c) ==
    /\ Alive /\ call[c].pc = "Resize.read"
    /\ runningMu = NoHolder
    /\ call' = [call EXCEPT ![c].pc = "Resize.apply", ![c].run = isRunning]
    /\ UNCHANGED <<aggVars, goVars, liveStarts, dbVars>>
    /\ UNCHANGED <<cli, syncVars, fetch, control>>

\* The workers Resize adds: go a.worker(i + 1) for i from a.workersCount to n - 1
GrowBy(n) == SetToBag({NewWorker(i + 1) : i \in workersCount..(n - 1)})

\* Resize that, when shrinking, ends the workers whose id exceeds the count,
\* whatever they are doing.
ResizeApplyKillsExcess(c) ==
    /\ Alive /\ call[c].pc = "Resize.apply"
    /\ mu = NoHolder
    /\ workers' = IF call[c].run
                  THEN LET kept == {w \in BagToSet(workers) : w.id <= call[c].arg}
                       IN [w \in kept |-> workers[w]] (+) GrowBy(call[c].arg)
                  ELSE workers
    /\ workersCount' = call[c].arg
    /\ call' = Return(c, "ok")
    /\ UNCHANGED <<interval, isRunning, runningMu, mu, ctx, ticker, jobs,
                   loops, cycles, crashed, liveStarts, dbVars>>
    /\ UNCHANGED <<cli, syncVars, fetch, control>>

\* Resize that spawns the missing workers whether the aggregator runs or not.
ResizeApplySpawnsWhenStopped(c) ==
    /\ Alive /\ call[c].pc = "Resize.apply"
    /\ mu = NoHolder
    /\ workers' = workers (+) GrowBy(call[c].arg)
    /\ workersCount' = call[c].arg
    /\ call' = Return(c, "ok")
    /\ UNCHANGED <<interval, isRunning, runningMu, mu, ctx, ticker, jobs,
                   loops, cycles, crashed, liveStarts, dbVars>>
    /\ UNCHANGED <<cli, syncVars, fetch, control>>

\* Resize that gives a running aggregator a new job queue sized for the new
\* count.
ResizeApplyRemakesQueue(c) ==
    /\ Alive /\ call[c].pc = "Resize.apply"
    /\ mu = NoHolder
    /\ workers' = IF call[c].run THEN workers (+) GrowBy(call[c].arg) ELSE workers
    /\ workersCount' = call[c].arg
    /\ jobs' = IF call[c].run
               THEN [jobs EXCEPT !.cap = call[c].arg * QueueFactor, !.buf = <<>>]
               ELSE jobs
    /\ call' = Return(c, "ok")
    /\ UNCHANGED <<interval, isRunning, runningMu, mu, ctx, ticker,
                   loops, cycles, crashed, liveStarts, dbVars>>
    /\ UNCHANGED <<cli, syncVars, fetch, control>>

\* Resize, under a.mu: a stopped aggregator only records the count; a running
\* one spawns the missing workers and records the count
ResizeApply(c) ==
    /\ Alive /\ call[c].pc = "Resize.apply"
    /\ mu = NoHolder
    /\ workers' = IF call[c].run THEN workers (+) GrowBy(call[c].arg) ELSE workers
    /\ workersCount' = call[c].arg
    /\ call' = Return(c, "ok")
    /\ UNCHANGED <<interval, isRunning, runningMu, mu, ctx, ticker, jobs,
                   loops, cycles, crashed, liveStarts, dbVars>>
    /\ UNCHANGED <<cli, syncVars, fetch, control>>

Resize(c) ==
    \/ \E n \in WorkerArgs : ResizeCheck(c, n)
    \/ ResizeRead(c)
    \/ ResizeApply(c)

\* ------------------------------------------- a second invocation of the program
\* main builds its own CLI, and cli.New its own Aggregator from the defaults
\* of the configuration: the process shares no memory with the one that runs
\* `fetch`.  An invocation is one step of the model: it touches nothing but
\* its own memory, and exits with its result.
NoInvocation == [cmd |-> "none", arg |-> 0, ret |-> "none"]

\* The `fetch` command before it runs: sig is the signal buffered in sigChan,
\* sent the signals sent to the process, got whether one was received, stops
\* the calls of Stop the command has made.
NoFetch == [pc |-> "none", sig |-> 0, sent |-> 0, got |-> FALSE, stops |-> 0]

\* No control listener is bound, no connection is open, and no set-interval
\* or set-workers command has been run yet.
NoControl == [bound |-> FALSE, inbox |-> <<>>, n |-> 0]
\* ------------------------------------------- settings in the repository
\* The aggregator table is a key/value store, empty when created.  A
\* duration is stored with String() and read with ParseDuration, a count
\* with Itoa and Atoi: the text is modelled by the value it stands for, and
\* Absent is a key without a row (the read returns an error).  sets counts
\* the times a writer has set settings_changed, ver the values stored.
Absent == -1
Pollers == {"monitor", "loop"}
NoSettings == [interval |-> Absent, workers |-> Absent, changed |-> "absent", sets |-> 0, ver |-> 0]
IdlePoll == [pc |-> "idle", newInterval |-> 0, newWorkers |-> 0, gen |-> 0, err |-> "none"]
IdleWriter == [pc |-> "idle"]
FailedWriter == [pc |-> "idle", ret |-> "failed to save to database"]
InitSync == settings = NoSettings /\ writer = IdleWriter /\ poll = [p \in Pollers |-> IdlePoll]

\* AggregatorManager.SetInterval, SetAggregatorSetting("interval", ...)
ManagerSetInterval(d) ==
    /\ Alive /\ writer.pc = "idle" /\ settings.sets < MaxWrites /\ settings.ver < MaxWrites
    /\ settings' = [settings EXCEPT !.interval = d, !.ver = @ + 1]
    /\ writer' = [pc |-> "flag"]
    /\ UNCHANGED <<aggVars, goVars, call, liveStarts, dbVars, cli, fetch, control, poll>>

\* AggregatorManager.SetWorkers, SetAggregatorSetting("workers", ...)
ManagerSetWorkers(n) ==
    /\ Alive /\ writer.pc = "idle" /\ settings.sets < MaxWrites /\ settings.ver < MaxWrites
    /\ settings' = [settings EXCEPT !.workers = n, !.ver = @ + 1]
    /\ writer' = [pc |-> "flag"]
    /\ UNCHANGED <<aggVars, goVars, call, liveStarts, dbVars, cli, fetch, control, poll>>

\* AggregatorManager.SetInterval / SetWorkers,
\* SetAggregatorSetting("settings_changed", "true")
ManagerSetFlag ==
    /\ Alive /\ writer.pc = "flag"
    /\ settings' = [settings EXCEPT !.changed = "true", !.sets = @ + 1]
    /\ writer' = IdleWriter
    /\ UNCHANGED <<aggVars, goVars, call, liveStarts, dbVars, cli, fetch, control, poll>>

\* A writer that goes on to set the flag although storing the value failed.
ManagerStoreFailsSetsFlag ==
    /\ Alive /\ writer.pc = "idle" /\ settings.sets < MaxWrites
    /\ writer' = [pc |-> "flag"]
    /\ UNCHANGED <<aggVars, goVars, call, liveStarts, dbVars, cli, fetch, control, settings, poll>>

\* AggregatorManager.SetInterval / SetWorkers, SetAggregatorSetting of the
\* value fails: the error is returned, the flag is not touched
ManagerStoreFails ==
    /\ Alive /\ writer.pc = "idle"
    /\ writer' = FailedWriter
    /\ UNCHANGED <<aggVars, goVars, call, liveStarts, dbVars, cli, fetch, control, settings, poll>>

\* AggregatorManager.SetInterval / SetWorkers,
\* SetAggregatorSetting("settings_changed", "true") fails: a warning, return nil
ManagerSetFlagFails ==
    /\ Alive /\ writer.pc = "flag"
    /\ writer' = IdleWriter
    /\ UNCHANGED <<aggVars, goVars, call, liveStarts, dbVars, cli, fetch, control, settings, poll>>

ManagerFails == ManagerStoreFails \/ ManagerSetFlagFails

Manager ==
    \/ \E d \in DurationArgs : ManagerSetInterval(d)
    \/ \E n \in WorkerArgs : ManagerSetWorkers(n)
    \/ ManagerSetFlag

\* StartMonitoring, case <-ticker.C: the goroutine Start launched with a.ctx
\* begins a pass.
StartMonitoring ==
    /\ Alive /\ isRunning /\ ctx = "live"
    /\ poll["monitor"].pc = "idle"
    /\ poll' = [poll EXCEPT !["monitor"] = [IdlePoll EXCEPT !.pc = "check"]]
    /\ UNCHANGED <<aggVars, goVars, call, liveStarts, dbVars, cli, fetch, control, settings, writer>>

\* aggregationLoop, case <-settingsTicker.C: the loop leaves its select and
\* begins a pass itself.
aggregationLoopSettings(l) ==
    /\ Alive /\ BagIn(l, loops) /\ l.pc \in {"enter", "wait"}
    /\ poll["loop"].pc = "idle"
    /\ loops' = Become(loops, l, [l EXCEPT !.pc = "poll"])
    /\ poll' = [poll EXCEPT !["loop"] = [IdlePoll EXCEPT !.pc = "check"]]
    /\ UNCHANGED <<aggVars, workers, cycles, crashed, call, liveStarts, dbVars,
                   cli, fetch, control, settings, writer>>

\* CheckAndApplyChanges returns: the monitor waits for its next tick, the
\* loop re-enters its select and evaluates a.ticker.C again.
BackToSelect(l) == IF l.pc = "poll" THEN NewLoop ELSE l
LoopsAfterPass(p, ls) == IF p = "loop" THEN MapBag(ls, BackToSelect) ELSE ls

\* CheckAndApplyChanges, GetAggregatorSetting("settings_changed"): an error
\* or a value other than "true" returns nil
CheckAndApplyChangesCheck(p) ==
    /\ Alive /\ poll[p].pc = "check"
    /\ \E err \in BOOLEAN :
          IF err \/ settings.changed # "true"
          THEN /\ poll' = [poll EXCEPT ![p] = IdlePoll]
               /\ loops' = LoopsAfterPass(p, loops)
          ELSE /\ poll' = [poll EXCEPT ![p].pc = "reset", ![p].gen = settings.sets]
               /\ UNCHANGED loops
    /\ UNCHANGED <<aggVars, workers, cycles, crashed, call, liveStarts, dbVars,
                   cli, fetch, control, settings, writer>>

\* A pass that goes on to read the values without resetting the flag.
CheckAndApplyChangesResetSkipped(p) ==
    /\ Alive /\ poll[p].pc = "reset"
    /\ poll' = [poll EXCEPT ![p].pc = "readInterval"]
    /\ UNCHANGED <<aggVars, goVars, call, liveStarts, dbVars, cli, fetch, control, settings, writer>>

\* CheckAndApplyChanges, SetAggregatorSetting("settings_changed", "false")
CheckAndApplyChangesReset(p) ==
    /\ Alive /\ poll[p].pc = "reset"
    /\ settings' = [settings EXCEPT !.changed = "false"]
    /\ poll' = [poll EXCEPT ![p].pc = "readInterval"]
    /\ UNCHANGED <<aggVars, goVars, call, liveStarts, dbVars, cli, fetch, control, writer>>

\* CheckAndApplyChanges, GetAggregatorSetting("interval") and ParseDuration:
\* newInterval stays 0 when either fails
CheckAndApplyChangesReadInterval(p) ==
    /\ Alive /\ poll[p].pc = "readInterval"
    /\ \E err \in BOOLEAN :
          poll' = [poll EXCEPT ![p].pc = "readWorkers",
                               ![p].newInterval = IF err \/ settings.interval = Absent
                                                  THEN 0 ELSE settings.interval]
    /\ UNCHANGED <<aggVars, goVars, call, liveStarts, dbVars, cli, fetch, control, settings, writer>>

\* CheckAndApplyChanges, GetAggregatorSetting("workers") and Atoi: newWorkers
\* stays 0 when either fails or the count is not positive
CheckAndApplyChangesReadWorkers(p) ==
    /\ Alive /\ poll[p].pc = "readWorkers"
    /\ \E err \in BOOLEAN :
          poll' = [poll EXCEPT ![p].pc = "applyInterval",
                               ![p].newWorkers = IF err \/ settings.workers <= 0
                                                 THEN 0 ELSE settings.workers]
    /\ UNCHANGED <<aggVars, goVars, call, liveStarts, dbVars, cli, fetch, control, settings, writer>>

\* CheckAndApplyChanges, if newInterval > 0 { aggregator.SetInterval(newInterval) }
\* with the SetInterval of the aggregator that has a manager: an error when
\* not running, nothing when the interval is the same, else the interval is
\* stored and the ticker stopped and replaced.
CheckAndApplyChangesSetInterval(p) ==
    /\ Alive /\ poll[p].pc = "applyInterval"
    /\ mu = NoHolder
    /\ LET d == poll[p].newInterval
       IN IF d > 0 /\ isRunning /\ interval # d
          THEN /\ interval' = d
               /\ IF ticker.made
                  THEN /\ ticker' = NewTicker(d)
                       /\ loops' \in LoopsAfterNewTicker(loops)
                  ELSE UNCHANGED <<ticker, loops>>
          ELSE UNCHANGED <<interval, ticker, loops>>
    /\ poll' = [poll EXCEPT ![p].pc = "applyWorkers",
                            ![p].err = IF poll[p].newInterval > 0 /\ ~isRunning
                                       THEN "aggregator is not running" ELSE "none"]
    /\ UNCHANGED <<workersCount, isRunning, runningMu, mu, ctx, jobs, workers,
                   cycles, crashed, call, liveStarts, dbVars, cli, fetch, control, settings, writer>>

\* CheckAndApplyChanges, if newWorkers > 0 { aggregator.Resize(newWorkers) },
\* then return nil
CheckAndApplyChangesResize(p) ==
    /\ Alive /\ poll[p].pc = "applyWorkers"
    /\ mu = NoHolder
    /\ LET n == poll[p].newWorkers
       IN IF n > 0 /\ n # workersCount
          THEN /\ (isRunning /\ n > workersCount) => CanSpawn(n - workersCount)
               /\ workers' = IF isRunning THEN workers (+) GrowBy(n) ELSE workers
               /\ workersCount' = n
          ELSE UNCHANGED <<workers, workersCount>>
    /\ poll' = [poll EXCEPT ![p] = IdlePoll]
    /\ loops' = LoopsAfterPass(p, loops)
    /\ UNCHANGED <<interval, isRunning, runningMu, mu, ctx, ticker, jobs,
                   cycles, crashed, call, liveStarts, dbVars, cli, fetch, control, settings, writer>>

CheckAndApplyChanges(p) ==
    \/ CheckAndApplyChangesCheck(p)
    \/ CheckAndApplyChangesReset(p)
    \/ CheckAndApplyChangesReadInterval(p)
    \/ CheckAndApplyChangesReadWorkers(p)
    \/ CheckAndApplyChangesSetInterval(p)
    \/ CheckAndApplyChangesResize(p)

StartItFirst == "background process is not running. Start it first with 'rsshub fetch'"

\* aggregator.New in the second process: its own fields.
OwnAggregator == [interval |-> Second + 1, workersCount |-> 1, isRunning |-> FALSE]

\* CLI.handleSetInterval of the second process; the SetInterval it would go
\* on to call is that of its own Aggregator.
handleSetInterval(d) ==
    /\ Alive
    /\ LET own == OwnAggregator
       IN cli' = [cmd |-> "set-interval", arg |-> d,
                  ret |-> IF d < Second THEN "interval must be at least 1 second"
                          ELSE IF ~own.isRunning THEN StartItFirst
                          ELSE "ok"]
    /\ UNCHANGED <<aggVars, goVars, call, liveStarts, dbVars, syncVars, fetch, control>>

\* CLI.handleSetWorkers of the second process; the Resize it would go on to
\* call is that of its own Aggregator.
handleSetWorkers(n) ==
    /\ Alive
    /\ LET own == OwnAggregator
       IN cli' = [cmd |-> "set-workers", arg |-> n,
                  ret |-> IF n <= 0 THEN "workers count must be positive"
                          ELSE IF ~own.isRunning THEN StartItFirst
                          ELSE "ok"]
    /\ UNCHANGED <<aggVars, goVars, call, liveStarts, dbVars, syncVars, fetch, control>>

Invocation ==
    \/ \E d \in DurationArgs : handleSetInterval(d)
    \/ \E n \in WorkerArgs : handleSetWorkers(n)

\* ------------------------------------------- Aggregator.LoadSettingsFromDB
\* The Start of the aggregator that keeps its settings in the repository.
\* Garbage is a stored text that neither ParseDuration nor Atoi accepts.
Garbage == -2
ParseDuration(s) == [err |-> s = Garbage, d |-> IF s = Garbage THEN 0 ELSE s]
Atoi(s) == [err |-> s = Garbage, n |-> IF s = Garbage THEN 0 ELSE s]

\* Start, a.runningMu.Lock() and the isRunning check, before the settings load
StartLoadCheck(c) ==
    /\ Alive /\ call[c].pc = "idle"
    /\ runningMu = NoHolder
    /\ IF isRunning
       THEN /\ call' = Return(c, "background process is already running")
            /\ UNCHANGED runningMu
       ELSE /\ CanSpawn(MaxWorkersArg)
            /\ BagCardinality(loops) < MaxLoops
            /\ BagCardinality(cycles) <= MaxCycles
            /\ clock < MaxClock
            /\ runningMu' = c
            /\ call' = Goto(c, 0, "Load.lock")
    /\ UNCHANGED <<interval, workersCount, isRunning, mu, ctx, ticker, jobs,
                   goVars, liveStarts, dbVars>>
    /\ UNCHANGED <<cli, syncVars, fetch, control>>

\* LoadSettingsFromDB, a.mu.Lock()
LoadSettingsFromDBLock(c) ==
    /\ Alive /\ call[c].pc = "Load.lock"
    /\ mu = NoHolder
    /\ mu' = c
    /\ call' = [call EXCEPT ![c].pc = "Load.interval"]
    /\ UNCHANGED <<interval, workersCount, isRunning, runningMu, ctx, ticker, jobs,
                   goVars, liveStarts, dbVars>>
    /\ UNCHANGED <<cli, syncVars, fetch, control>>

\* LoadSettingsFromDB, GetAggregatorSetting("interval") and ParseDuration:
\* the read fails when the key has no row, and may fail for any other reason
LoadSettingsFromDBInterval(c) ==
    /\ Alive /\ call[c].pc = "Load.interval"
    /\ \E err \in BOOLEAN :
          interval' = IF ~err /\ settings.interval # Absent
                              /\ ~ParseDuration(settings.interval).err
                      THEN ParseDuration(settings.interval).d
                      ELSE interval
    /\ call' = [call EXCEPT ![c].pc = "Load.workers"]
    /\ UNCHANGED <<workersCount, isRunning, runningMu, mu, ctx, ticker, jobs,
                   goVars, liveStarts, dbVars>>
    /\ UNCHANGED <<cli, syncVars, fetch, control>>

\* LoadSettingsFromDB, GetAggregatorSetting("workers"), Atoi and workers > 0;
\* the deferred a.mu.Unlock(); return nil
LoadSettingsFromDBWorkers(c) ==
    /\ Alive /\ call[c].pc = "Load.workers"
    /\ \E err \in BOOLEAN :
          workersCount' = IF ~err /\ settings.workers # Absent
                                  /\ ~Atoi(settings.workers).err
                                  /\ Atoi(settings.workers).n > 0
                          THEN Atoi(settings.workers).n
                          ELSE workersCount
    /\ mu' = NoHolder
    /\ call' = [call EXCEPT ![c].pc = "Start.make"]
    /\ UNCHANGED <<interval, isRunning, runningMu, ctx, ticker, jobs,
                   goVars, liveStarts, dbVars>>
    /\ UNCHANGED <<cli, syncVars, fetch, control>>

LoadSettingsFromDB(c) ==
    \/ LoadSettingsFromDBLock(c)
    \/ LoadSettingsFromDBInterval(c)
    \/ LoadSettingsFromDBWorkers(c)

\* Start with the settings load: after the load it goes on as the Start above
\* (context, queue of workersCount*2, workers, ticker, loop, first cycle).
StartLoad(c) ==
    \/ StartLoadCheck(c)
    \/ LoadSettingsFromDB(c)
    \/ StartMake(c) \/ StartSpawn(c) \/ StartTicker(c)

\* ---------------------------------------- CLI.handleFetch, waitForShutdown
\* The `fetch` command runs on the main goroutine of its process.
FetchThread == 1
Returned(c) == call[c].pc = "idle" /\ call[c].ret \notin {"none", "pending"}

\* handleFetch, c.aggregator.IsRunning(): return nil if already running
handleFetchCheck ==
    /\ Alive /\ fetch.pc = "none"
    /\ runningMu = NoHolder
    /\ fetch' = [fetch EXCEPT !.pc = IF isRunning THEN "returned" ELSE "start"]
    /\ UNCHANGED <<aggVars, goVars, call, liveStarts, dbVars, cli, syncVars, control>>

\* handleFetch, c.aggregator.Start(ctx)
handleFetchStart ==
    /\ fetch.pc = "start" /\ ~Returned(FetchThread)
    /\ Start(FetchThread)

\* handleFetch, Start has returned: the error is returned, or waitForShutdown
\* makes sigChan and registers it with signal.Notify
handleFetchStarted ==
    /\ Alive /\ fetch.pc = "start" /\ Returned(FetchThread)
    /\ fetch' = [fetch EXCEPT !.pc = IF call[FetchThread].ret = "ok" THEN "wait" ELSE "returned"]
    /\ call' = [call EXCEPT ![FetchThread] = IdleCall]
    /\ UNCHANGED <<aggVars, goVars, liveStarts, dbVars, cli, syncVars, control>>

\* waitForShutdown, sig := <-sigChan; the call of c.aggregator.Stop() begins
waitForShutdownReceive ==
    /\ Alive /\ fetch.pc = "wait" /\ fetch.sig > 0
    /\ fetch' = [fetch EXCEPT !.pc = "stop", !.sig = @ - 1, !.got = TRUE, !.stops = @ + 1]
    /\ UNCHANGED <<aggVars, goVars, call, liveStarts, dbVars, cli, syncVars, control>>

\* waitForShutdown, c.aggregator.Stop()
waitForShutdownStop ==
    /\ fetch.pc = "stop" /\ ~Returned(FetchThread)
    /\ Stop(FetchThread)

\* waitForShutdown that returns while the Stop it has called is still running.
waitForShutdownReturnEarly ==
    /\ Alive /\ fetch.pc = "stop"
    /\ fetch' = [fetch EXCEPT !.pc = "returned"]
    /\ UNCHANGED <<aggVars, goVars, call, liveStarts, dbVars, cli, syncVars, control>>

\* waitForShutdown, Stop has returned (its error is logged); handleFetch
\* returns nil and the process exits
waitForShutdownReturn ==
    /\ Alive /\ fetch.pc = "stop" /\ Returned(FetchThread)
    /\ fetch' = [fetch EXCEPT !.pc = "returned"]
    /\ UNCHANGED <<aggVars, goVars, call, liveStarts, dbVars, cli, syncVars, control>>

waitForShutdown == waitForShutdownReceive \/ waitForShutdownStop \/ waitForShutdownReturn

handleFetch == handleFetchCheck \/ handleFetchStart \/ handleFetchStarted \/ waitForShutdown

\* SIGINT or SIGTERM sent to the process.  Once signal.Notify has registered
\* sigChan (capacity 1) the runtime puts the signal there without blocking,
\* and drops it when the channel is full; before that the signal has its
\* default action and ends the process.
Signal ==
    /\ Alive /\ fetch.pc # "returned" /\ fetch.sent < MaxSignals
    /\ IF fetch.pc \in {"wait", "stop"}
       THEN /\ fetch' = [fetch EXCEPT !.sent = @ + 1, !.sig = 1]
            /\ UNCHANGED crashed
       ELSE /\ fetch' = [fetch EXCEPT !.sent = @ + 1]
            /\ crashed' = "signal: interrupt"
    /\ UNCHANGED <<aggVars, workers, loops, cycles, call, liveStarts, dbVars, cli, syncVars, control>>

\* ------------------------------------------------ the control protocol
\* cmdFetch binds the control listener once Start has returned, and its
\* deferred ctrl.Stop() closes it after Stop has returned.  The server takes
\* one command per connection and replies once.
ServerThread == 2
NoArg == -3
Unavailable == "background process is not running or control address unavailable"
IntervalTexts == {NoArg, Garbage} \cup DurationArgs
CountTexts == {NoArg, Garbage} \cup WorkerArgs
Sscanf(s) == [err |-> s = Garbage, n |-> IF s = Garbage THEN 0 ELSE s]

\* cmdFetch, ctrl.Start() after aggr.Start(ctx) has returned nil
ControlServerStart ==
    /\ Alive /\ isRunning /\ ~control.bound
    /\ call[FetchThread].pc = "idle"
    /\ control' = [control EXCEPT !.bound = TRUE]
    /\ UNCHANGED <<aggVars, goVars, call, liveStarts, dbVars, cli, syncVars, fetch>>

\* cmdFetch, the deferred ctrl.Stop() after aggr.Stop() has returned
ControlServerStop ==
    /\ Alive /\ ~isRunning /\ control.bound /\ control.inbox = <<>>
    /\ call[FetchThread].pc = "idle"
    /\ control' = [control EXCEPT !.bound = FALSE]
    /\ UNCHANGED <<aggVars, goVars, call, liveStarts, dbVars, cli, syncVars, fetch>>

\* The server applies the command of its connection to the aggregator: the
\* calls of SetInterval or Resize, step by step.
ControlServerApply ==
    /\ control.inbox # <<>> /\ ~Returned(ServerThread)
    /\ LET m == Head(control.inbox)
       IN IF m.cmd = "SET_INTERVAL"
          THEN \/ SetIntervalStore(ServerThread, m.arg)
               \/ SetIntervalRead(ServerThread)
               \/ SetIntervalApply(ServerThread)
          ELSE \/ ResizeCheck(ServerThread, m.arg)
               \/ ResizeRead(ServerThread)
               \/ ResizeApply(ServerThread)

\* The server replies OK or ERR <message> and closes the connection; the
\* command that sent it returns.
ControlServerReply ==
    /\ Alive /\ control.inbox # <<>> /\ Returned(ServerThread)
    /\ control' = [control EXCEPT !.inbox = <<>>]
    /\ cli' = [cli EXCEPT !.ret = IF call[ServerThread].ret = "ok" THEN "OK" ELSE "ERR"]
    /\ call' = [call EXCEPT ![ServerThread] = IdleCall]
    /\ UNCHANGED <<aggVars, goVars, liveStarts, dbVars, syncVars, fetch>>

ControlServer ==
    \/ ControlServerStart
    \/ ControlServerStop
    \/ ControlServerApply
    \/ ControlServerReply

\* cmdSetInterval whose failed dial is returned as the network error it is.
cmdSetIntervalGenericError(a) ==
    /\ Alive /\ cli.ret # "pending" /\ control.n < MaxCommands
    /\ LET dialed == a # NoArg /\ ~ParseDuration(a).err
           sends == dialed /\ control.bound
       IN /\ cli' = [cmd |-> "set-interval", arg |-> a,
                     ret |-> IF a = NoArg THEN "usage: rsshub set-interval <duration>"
                             ELSE IF ParseDuration(a).err THEN "invalid duration"
                             ELSE IF ~control.bound THEN "dial tcp: connection refused"
                             ELSE "pending"]
          /\ control' = [control EXCEPT
                            !.n = @ + 1,
                            !.inbox = IF sends
                                      THEN <<[cmd |-> "SET_INTERVAL", arg |-> ParseDuration(a).d]>>
                                      ELSE @]
    /\ UNCHANGED <<aggVars, goVars, call, liveStarts, dbVars, syncVars, fetch>>

\* cmdSetInterval of a second invocation: the argument, ParseDuration,
\* net.Dial to the control address, SendControlSetInterval
cmdSetInterval(a) ==
    /\ Alive /\ cli.ret # "pending" /\ control.n < MaxCommands
    /\ LET dialed == a # NoArg /\ ~ParseDuration(a).err
           sends == dialed /\ control.bound
       IN /\ cli' = [cmd |-> "set-interval", arg |-> a,
                     ret |-> IF a = NoArg THEN "usage: rsshub set-interval <duration>"
                             ELSE IF ParseDuration(a).err THEN "invalid duration"
                             ELSE IF ~control.bound THEN Unavailable
                             ELSE "pending"]
          /\ control' = [control EXCEPT
                            !.n = @ + 1,
                            !.inbox = IF sends
                                      THEN <<[cmd |-> "SET_INTERVAL", arg |-> ParseDuration(a).d]>>
                                      ELSE @]
    /\ UNCHANGED <<aggVars, goVars, call, liveStarts, dbVars, syncVars, fetch>>

\* cmdSetWorkers of a second invocation: the argument, Sscanf and count > 0,
\* net.Dial to the control address, SendControlSetWorkers
cmdSetWorkers(a) ==
    /\ Alive /\ cli.ret # "pending" /\ control.n < MaxCommands
    /\ LET dialed == a # NoArg /\ ~Sscanf(a).err /\ Sscanf(a).n > 0
           sends == dialed /\ control.bound
       IN /\ sends => CanSpawn(IF Sscanf(a).n > workersCount
                               THEN Sscanf(a).n - workersCount ELSE 0)
          /\ cli' = [cmd |-> "set-workers", arg |-> a,
                     ret |-> IF a = NoArg THEN "usage: rsshub set-workers <count>"
                             ELSE IF ~dialed THEN "count must be positive integer"
                             ELSE IF ~control.bound THEN Unavailable
                             ELSE "pending"]
          /\ control' = [control EXCEPT
                            !.n = @ + 1,
                            !.inbox = IF sends
                                      THEN <<[cmd |-> "SET_WORKERS", arg |-> Sscanf(a).n]>>
                                      ELSE @]
    /\ UNCHANGED <<aggVars, goVars, call, liveStarts, dbVars, syncVars, fetch>>

ControlClient ==
    \/ \E a \in IntervalTexts : cmdSetInterval(a)
    \/ \E a \in CountTexts : cmdSetWorkers(a)

\* ------------------------------------------------------------ initial states
\* service.New(db, parser, defaultInterval, defaultWorkers): a stopped
\* aggregator with the configured defaults and no goroutine.
New(defaultInterval, defaultWorkers) ==
    /\ interval = defaultInterval
    /\ workersCount = defaultWorkers
    /\ isRunning = FALSE
    /\ runningMu = NoHolder
    /\ mu = NoHolder
    /\ ctx = "nil"
    /\ ticker = NilTicker
    /\ jobs = NilJobs
    /\ workers = EmptyBag
    /\ loops = EmptyBag
    /\ cycles = EmptyBag
    /\ crashed = ""

InitAggregator ==
    /\ \E w \in 1..MaxWorkersArg : New(Second + 1, w)
    /\ call = [c \in Callers |-> IdleCall]
    /\ liveStarts = 0

\* A repository of k feeds created one after the other, the last at time 1,
\* which is now.
InitFeeds(k) ==
    /\ updatedAt = [f \in 1..k |-> f - k + 1]
    /\ clock = 1

\* One stored feed, whose fetch returns no item (or fails).
Init ==
    /\ InitAggregator
    /\ InitFeeds(1)
    /\ articles = <<>>
    /\ feedItems = [f \in 1..1 |-> <<>>]
    /\ cli = NoInvocation
    /\ fetch = NoFetch
    /\ control = NoControl
    /\ InitSync

Goroutines ==
    \/ \E w \in BagToSet(workers) : worker(w)
    \/ \E l \in BagToSet(loops) : aggregationLoop(l)
    \/ \E cy \in BagToSet(cycles) : fetchFeeds(cy)
    \/ Tick

\* Threads that start and stop the aggregator concurrently.
Next ==
    \/ \E c \in Callers : Start(c)
    \/ \E c \in Callers : Stop(c)
    \/ Goroutines

Spec == Init /\ [][Next]_vars

\* One thread starts and stops the aggregator while another resizes it.
LifecycleThread == 1
OperatorThread == 2

NextResize ==
    \/ Start(LifecycleThread)
    \/ Stop(LifecycleThread)
    \/ Resize(OperatorThread)
    \/ Goroutines

SpecResize == Init /\ [][NextResize]_vars

\* One thread starts and stops the aggregator; the Go runtime schedules every
\* goroutine that can take a step, and the thread goes on with a call it began.
NextStop ==
    \/ Start(LifecycleThread)
    \/ Stop(LifecycleThread)
    \/ Goroutines

FairStop ==
    /\ WF_vars(Tick)
    /\ WF_vars(\E w \in BagToSet(workers) : worker(w))
    /\ WF_vars(\E l \in BagToSet(loops) : aggregationLoop(l))
    /\ WF_vars(\E cy \in BagToSet(cycles) : fetchFeeds(cy))
    /\ WF_vars(StartMake(LifecycleThread) \/ StartSpawn(LifecycleThread)
                  \/ StartTicker(LifecycleThread))
    /\ WF_vars(StopCancel(LifecycleThread) \/ StopClose(LifecycleThread)
                  \/ StopWait(LifecycleThread) \/ StopReturn(LifecycleThread))

SpecStop == Init /\ [][NextStop]_vars /\ FairStop

\* One thread starts the aggregator while another sets the interval.
NextInterval ==
    \/ Start(LifecycleThread)
    \/ SetInterval(OperatorThread)
    \/ Goroutines

SpecInterval == Init /\ [][NextInterval]_vars

\* The same threads under the runtime's scheduling: every goroutine that can
\* take a step does, and each thread goes on with a call it began.
FairInterval ==
    /\ WF_vars(Tick)
    /\ WF_vars(\E w \in BagToSet(workers) : worker(w))
    /\ WF_vars(\E l \in BagToSet(loops) : aggregationLoop(l))
    /\ WF_vars(\E cy \in BagToSet(cycles) : fetchFeeds(cy))
    /\ WF_vars(StartMake(LifecycleThread) \/ StartSpawn(LifecycleThread)
                  \/ StartTicker(LifecycleThread))
    /\ WF_vars(SetIntervalRead(OperatorThread) \/ SetIntervalApply(OperatorThread))

SpecRetime == Init /\ [][NextInterval]_vars /\ FairInterval

\* The aggregator is started and resized but never stopped.  Every goroutine
\* that can run does run (the Go scheduler), the timer keeps firing, and a
\* call that has begun runs to its end; the threads are not bound to call.
NextShrink ==
    \/ Start(LifecycleThread)
    \/ Resize(OperatorThread)
    \/ Goroutines

FairShrink ==
    /\ WF_vars(Tick)
    /\ WF_vars(\E w \in BagToSet(workers) : worker(w))
    /\ WF_vars(\E l \in BagToSet(loops) : aggregationLoop(l))
    /\ WF_vars(\E cy \in BagToSet(cycles) : fetchFeeds(cy))
    /\ WF_vars(StartMake(LifecycleThread) \/ StartSpawn(LifecycleThread)
                  \/ StartTicker(LifecycleThread))
    /\ WF_vars(ResizeRead(OperatorThread) \/ ResizeApply(OperatorThread))

SpecShrink == Init /\ [][NextShrink]_vars /\ FairShrink

\* The process running `fetch` has its aggregator started; once it runs,
\* commands are given by separate invocations of the program ("in another
\* terminal").
NextCLI ==
    \/ Start(LifecycleThread)
    \/ (isRunning /\ Invocation)
    \/ Goroutines

SpecCLI == Init /\ [][NextCLI]_vars /\ FairShrink

\* Feeds with items.  The feeds syndicate the same items: each returns the
\* first n links, in order; the articles of the first p links were stored
\* earlier (at time 0).
AllLinks == [l \in Links |-> l]
ItemLists == {SubSeq(AllLinks, 1, n) : n \in 0..Min2(MaxItems, NumLinks)}
Persisted(p) == [k \in 1..p |-> [link |-> k, feed |-> 1, at |-> 0]]

InitFeed ==
    /\ InitAggregator
    /\ InitFeeds(NumFeeds)
    /\ \E items \in ItemLists : feedItems = [f \in 1..NumFeeds |-> items]
    /\ \E p \in 0..NumLinks : articles = Persisted(p)
    /\ cli = NoInvocation
    /\ fetch = NoFetch
    /\ control = NoControl
    /\ InitSync

\* The aggregator is started and its workers process the feeds.
NextFeed ==
    \/ Start(LifecycleThread)
    \/ Goroutines

SpecFeed == InitFeed /\ [][NextFeed]_vars

\* Slow workers: the timer keeps firing whatever the backlog, so that the
\* cycles find the job queue full.
AnyBacklog == QueueFactor * MaxWorkersArg

InitQueue ==
    /\ InitAggregator
    /\ InitFeeds(NumFeeds)
    /\ feedItems = [f \in 1..NumFeeds |-> <<>>]
    /\ articles = <<>>
    /\ cli = NoInvocation
    /\ fetch = NoFetch
    /\ control = NoControl
    /\ InitSync

NextQueue ==
    \/ Start(LifecycleThread)
    \/ TickAt(AnyBacklog)
    \/ \E w \in BagToSet(workers) : worker(w)
    \/ \E l \in BagToSet(loops) : aggregationLoop(l)
    \/ \E cy \in BagToSet(cycles) : fetchFeeds(cy)

SpecQueue == InitQueue /\ [][NextQueue]_vars

\* The repository may fail under the workers of a started aggregator.
InitFault ==
    /\ InitAggregator
    /\ InitFeeds(1)
    /\ \E items \in ItemLists : feedItems = [f \in 1..1 |-> items]
    /\ articles = <<>>
    /\ cli = NoInvocation
    /\ fetch = NoFetch
    /\ control = NoControl
    /\ InitSync

NextFault ==
    \/ Start(LifecycleThread)
    \/ Goroutines
    \/ \E w \in BagToSet(workers) : repositoryFails(w)

SpecFault == InitFault /\ [][NextFault]_vars

\* A writer stores settings while the started aggregator polls them from
\* its monitoring goroutine and from its scheduling loop.
NextPoll ==
    \/ Start(LifecycleThread)
    \/ Goroutines
    \/ Manager
    \/ StartMonitoring
    \/ \E l \in BagToSet(loops) : aggregationLoopSettings(l)
    \/ \E p \in Pollers : CheckAndApplyChanges(p)

SpecPoll == Init /\ [][NextPoll]_vars

\* Several feeds, none with items, under the runtime's scheduling: the timer
\* fires, and every goroutine that can take a step does.
FairFeed ==
    /\ WF_vars(Tick)
    /\ WF_vars(\E w \in BagToSet(workers) : worker(w))
    /\ WF_vars(\E l \in BagToSet(loops) : aggregationLoop(l))
    /\ WF_vars(\E cy \in BagToSet(cycles) : fetchFeeds(cy))
    /\ WF_vars(StartMake(LifecycleThread) \/ StartSpawn(LifecycleThread)
                  \/ StartTicker(LifecycleThread))

SpecStarve == InitQueue /\ [][NextFeed]_vars /\ FairFeed

\* One feed whose channel holds any items in any order, some of them invalid.
ChannelLists == UNION {[1..n -> {NoLink} \cup Links] : n \in 0..MaxItems}

InitOrder ==
    /\ InitAggregator
    /\ InitFeeds(1)
    /\ \E items \in ChannelLists : feedItems = [f \in 1..1 |-> items]
    /\ articles = <<>>
    /\ cli = NoInvocation
    /\ fetch = NoFetch
    /\ control = NoControl
    /\ InitSync

SpecOrder == InitOrder /\ [][NextFeed]_vars

\* The worker count of a started aggregator is changed while cycles select
\* among several feeds.
NextGrow ==
    \/ Start(LifecycleThread)
    \/ Resize(OperatorThread)
    \/ Goroutines

SpecGrow == InitQueue /\ [][NextGrow]_vars

\* One thread starts and stops the aggregator that loads its settings from
\* the repository; the aggregator table holds any rows an earlier run, a
\* set-interval / set-workers command or a hand edit left there.
StoredIntervals == {Absent, Garbage} \cup DurationArgs
StoredWorkers == {Absent, Garbage} \cup WorkerArgs

InitLoad ==
    /\ InitAggregator
    /\ InitFeeds(1)
    /\ articles = <<>>
    /\ feedItems = [f \in 1..1 |-> <<>>]
    /\ cli = NoInvocation
    /\ fetch = NoFetch
    /\ control = NoControl
    /\ \E d \in StoredIntervals, n \in StoredWorkers :
          settings = [NoSettings EXCEPT !.interval = d, !.workers = n]
    /\ writer = IdleWriter
    /\ poll = [p \in Pollers |-> IdlePoll]

NextLoad ==
    \/ StartLoad(LifecycleThread)
    \/ Stop(LifecycleThread)
    \/ Goroutines

SpecLoad == InitLoad /\ [][NextLoad]_vars

\* The process that runs `fetch`: the command on the main goroutine, the
\* goroutines of its aggregator until the command returns and the process
\* exits, and the signals sent to it.
Running == fetch.pc # "returned"

NextFetch ==
    \/ handleFetch
    \/ Signal
    \/ Running /\ \E w \in BagToSet(workers) : worker(w)
    \/ Running /\ \E l \in BagToSet(loops) : aggregationLoop(l)
    \/ Running /\ \E cy \in BagToSet(cycles) : fetchFeeds(cy)
    \/ Running /\ Tick

SpecFetch == Init /\ [][NextFetch]_vars

\* The process that runs `fetch` with its control listener, and the
\* set-interval / set-workers commands other invocations run at any moment.
NextControl ==
    \/ ~control.bound /\ Start(FetchThread)
    \/ control.bound /\ Stop(FetchThread)
    \/ ControlServer
    \/ ControlClient
    \/ Goroutines

SpecControl == Init /\ [][NextControl]_vars

\* The aggregator is started on a table in which an earlier set-workers
\* command has left a worker count and the flag; a writer stores worker counts while
\* the monitoring goroutine and the scheduling loop poll them.  The
\* repository answers every read of the pollers, the runtime schedules every
\* goroutine that can take a step, and a writer that has stored its value
\* goes on to set the flag.
InitPending ==
    /\ New(Second + 1, 1)
    /\ call = [c \in Callers |-> IdleCall]
    /\ liveStarts = 0
    /\ InitFeeds(1)
    /\ articles = <<>>
    /\ feedItems = [f \in 1..1 |-> <<>>]
    /\ cli = NoInvocation
    /\ fetch = NoFetch
    /\ control = NoControl
    /\ \E n \in 1..MaxWorkersArg :
          settings = [NoSettings EXCEPT !.workers = n, !.changed = "true"]
    /\ writer = IdleWriter
    /\ poll = [p \in Pollers |-> IdlePoll]

RepositoryAnswers ==
    \A p \in Pollers :
       /\ (poll[p].pc = "check" /\ settings.changed = "true") => poll'[p].pc # "idle"
       /\ (poll[p].pc = "readInterval" /\ poll'[p].pc # "readInterval")
             => poll'[p].newInterval = (IF settings.interval = Absent THEN 0 ELSE settings.interval)
       /\ (poll[p].pc = "readWorkers" /\ poll'[p].pc # "readWorkers")
             => poll'[p].newWorkers = (IF settings.workers <= 0 THEN 0 ELSE settings.workers)

NextSync ==
    \/ Start(LifecycleThread)
    \/ Goroutines
    \/ \E n \in WorkerArgs : ManagerSetWorkers(n)
    \/ ManagerSetFlag
    \/ StartMonitoring
    \/ \E l \in BagToSet(loops) : aggregationLoopSettings(l)
    \/ \E p \in Pollers : CheckAndApplyChanges(p) /\ RepositoryAnswers

FairSync ==
    /\ FairFeed
    /\ WF_vars(ManagerSetFlag)
    /\ WF_vars(StartMonitoring)
    /\ WF_vars(\E l \in BagToSet(loops) : aggregationLoopSettings(l))
    /\ \A p \in Pollers : WF_vars(CheckAndApplyChanges(p) /\ RepositoryAnswers)

SpecSync == InitPending /\ [][NextSync]_vars /\ FairSync

\* As SpecPoll, with a repository that may fail under the writer.
NextWrite ==
    \/ Start(LifecycleThread)
    \/ Goroutines
    \/ Manager
    \/ ManagerFails
    \/ StartMonitoring
    \/ \E l \in BagToSet(loops) : aggregationLoopSettings(l)
    \/ \E p \in Pollers : CheckAndApplyChanges(p)

SpecWrite == Init /\ [][NextWrite]_vars

\* One thread starts and stops the aggregator and reconfigures it while it
\* is stopped, one call after the other; the settings table holds an interval
\* and a worker count a writer stored earlier, with the flag still set, and
\* the monitoring goroutine's pass may go on after a Stop.
InitReconfigure ==
    /\ New(Second + 1, 1)
    /\ call = [c \in Callers |-> IdleCall]
    /\ liveStarts = 0
    /\ InitFeeds(1)
    /\ articles = <<>>
    /\ feedItems = [f \in 1..1 |-> <<>>]
    /\ cli = NoInvocation
    /\ fetch = NoFetch
    /\ control = NoControl
    /\ settings = [interval |-> Second, workers |-> MaxWorkersArg, changed |-> "true",
                   sets |-> 1, ver |-> 1]
    /\ writer = IdleWriter
    /\ poll = [p \in Pollers |-> IdlePoll]

NextReconfigure ==
    \/ Start(LifecycleThread)
    \/ Stop(LifecycleThread)
    \/ ~isRunning /\ Resize(LifecycleThread)
    \/ ~isRunning /\ SetInterval(LifecycleThread)
    \/ Goroutines
    \/ StartMonitoring
    \/ CheckAndApplyChanges("monitor")

SpecReconfigure == InitReconfigure /\ [][NextReconfigure]_vars

\* =============================================================== properties
AlreadyRunning == "background process is already running"
NotRunning == "background process is not running"
MustBePositive == "workers count must be positive"
StartBody == {"Start.make", "Start.spawn"}
StopBody == {"Stop.cancel", "Stop.close", "Stop.wait", "Stop.return"}

SpawnsWorker == BagCardinality(workers') > BagCardinality(workers)
MakesQueue == jobs'.made /\ ~jobs'.closed /\ (~jobs.made \/ jobs.closed)
MakesTicker == ticker'.made /\ ~ticker'.stopped /\ (~ticker.made \/ ticker.stopped)
StartsLoop == BagCardinality(loops') > BagCardinality(loops)

\* C1: of the Start calls made on a stopped aggregator, concurrently or not,
\* exactly one succeeds before the next Stop: at most one thread is past
\* Start's check, it is there only while the aggregator is stopped, the
\* aggregator is running exactly when one Start has succeeded since the last
\* Stop, and only the thread past the check (the call that returns nil)
\* spawns workers, makes the job queue, the ticker and the scheduling loop.
C1_StartSucceedsOnce ==
    /\ [](/\ liveStarts \in {0, 1}
          /\ isRunning <=> liveStarts = 1
          /\ \A c \in Callers : call[c].pc \in StartBody => runningMu = c /\ ~isRunning)
    /\ [][(SpawnsWorker \/ MakesQueue \/ MakesTicker \/ StartsLoop) =>
            \E c \in Callers :
               /\ call[c].pc \in StartBody /\ runningMu = c /\ ~isRunning
               /\ call'[c].pc \in StartBody \/ call'[c].ret = "ok"]_vars

\* Two threads called Start on the stopped aggregator: one got nil, the other
\* the error, and the workers of the one run are live.
C1_Witness ==
    \E c1, c2 \in Callers :
       /\ c1 # c2
       /\ call[c1].pc = "idle" /\ call[c1].ret = "ok"
       /\ call[c2].pc = "idle" /\ call[c2].ret = AlreadyRunning
       /\ isRunning /\ workerWg = workersCount /\ jobs.made /\ ticker.made

\* C3: a Start on a running aggregator and a Stop on a stopped one return
\* their error and change nothing: the step that returns the error leaves the
\* running flag, the context, the queue, the ticker and the goroutines as
\* they were; no call goes past Start's check while running or past Stop's
\* check while stopped, and the queue is never closed twice.
C3_MisuseFailsCleanly ==
    /\ [](/\ \A c \in Callers : call[c].pc \in StopBody => isRunning
          /\ crashed # "close of closed channel")
    /\ [][\A c \in Callers :
            /\ (call[c].pc = "idle" /\ call'[c].pc = "Start.make") => ~isRunning
            /\ (call[c].pc = "idle" /\ call'[c].pc = "Stop.cancel") => isRunning
            /\ (call[c].pc = "idle" /\ call'[c] # call[c]
                  /\ call'[c].ret \in {AlreadyRunning, NotRunning}) =>
                 /\ call'[c].ret = AlreadyRunning <=> isRunning
                 /\ UNCHANGED <<isRunning, runningMu, ctx, jobs, ticker,
                                workers, loops, cycles, crashed>>]_vars

\* Both misuses have happened: a Start refused while running and a Stop
\* refused while stopped.
C3_Witness ==
    \E c1, c2 \in Callers :
       /\ call[c1].ret = AlreadyRunning
       /\ call[c2].ret = NotRunning
       /\ ~isRunning /\ jobs.made /\ jobs.closed

\* C2: Stop returns, and the running flag becomes false, only once no worker
\* is live, whatever a concurrent Resize does: in the step that clears the
\* flag the live worker count is zero.
C2_StopReturnsAfterDrain ==
    [][(isRunning /\ ~isRunning') => workerWg' = 0]_vars

\* C5: a growing Resize(n) applied to a running aggregator (no Stop under
\* way) leaves exactly n live workers, whatever Resize calls came before.
C5_GrowGivesExactCount ==
    [][\A c \in Callers :
         (/\ call[c].pc = "Resize.apply" /\ call'[c].pc = "idle"
          /\ call[c].run /\ isRunning /\ runningMu = NoHolder
          /\ call[c].arg > workersCount)
         => workerWg' = call[c].arg]_vars

\* C8: Resize with a count of zero or less returns its error before it
\* touches anything, running or stopped: no call is past the check with such
\* a count, the configured count stays positive, and the step that returns
\* the error changes neither the aggregator nor its goroutines.
C8_ResizeRejectsNonPositive ==
    /\ [](/\ \A c \in Callers :
               call[c].pc \in {"Resize.read", "Resize.apply"} => call[c].arg > 0
          /\ workersCount > 0)
    /\ [][\A c \in Callers :
            (call[c].pc = "idle" /\ call'[c] # call[c] /\ call'[c].ret = MustBePositive)
            => UNCHANGED <<aggVars, goVars>>]_vars

\* Resize(0) was refused on the running aggregator, whose workers are live.
C8_Witness ==
    \E c \in Callers :
       /\ call[c].pc = "idle" /\ call[c].ret = MustBePositive
       /\ isRunning /\ workerWg = workersCount /\ workerWg > 0

\* C7: the interval never changes to a value below one second.
C7_IntervalNeverBelowMinimum ==
    [][interval' # interval => interval' >= Second]_vars

\* C4: once a Resize has left a running aggregator with more live workers
\* than the configured count, the live count comes down to the configured
\* count without a Stop (unless the operator resizes again, or the model's
\* clock runs out).
C4_ShrinkConverges ==
    (isRunning /\ call[OperatorThread].pc = "idle" /\ workerWg > workersCount)
       ~> (\/ workerWg <= workersCount
           \/ call[OperatorThread].pc # "idle"
           \/ clock >= MaxClock)

\* C6: a set-interval or set-workers command with a valid argument, given by
\* a separate invocation while the aggregator of the `fetch` process runs,
\* brings that aggregator's interval or worker count to the argument (unless
\* a different command follows, or the model's clock runs out).
C6_SeparateInvocationReconfigures ==
    /\ \A d \in {x \in DurationArgs : x >= Second} :
          (isRunning /\ cli.cmd = "set-interval" /\ cli.arg = d)
             ~> (\/ interval = d
                 \/ ~(cli.cmd = "set-interval" /\ cli.arg = d)
                 \/ clock >= MaxClock)
    /\ \A n \in {x \in WorkerArgs : x > 0} :
          (isRunning /\ cli.cmd = "set-workers" /\ cli.arg = n)
             ~> (\/ workersCount = n
                 \/ ~(cli.cmd = "set-workers" /\ cli.arg = n)
                 \/ clock >= MaxClock)

ItemLink(w) == FetchAndParse(w.feed)[w.idx]
Creating == {w \in BagToSet(workers) : w.pc = "create"}

\* C9: whatever the interleaving of the workers, no link has more than one
\* row in the articles table, and an insert that meets an existing row with
\* its link returns no error.
C9_OneRowPerLink ==
    /\ \A l \in Links : RowsWithLink(l) <= 1
    /\ \A w \in Creating : ~CreateArticle(ItemLink(w), w.feed).err

\* A worker found its link absent and is about to insert it, after another
\* worker has inserted a row with that link: the insert meets the conflict.
C9_Witness ==
    \E w \in Creating :
       /\ ArticleExists(ItemLink(w))
       /\ \E k \in 1..Len(articles) :
             articles[k].link = ItemLink(w) /\ articles[k].at > 0

\* C10: a worker that has gone through a feed's items reaches the timestamp
\* update with exactly one row for each of the feed's links; a row is only
\* ever added for an item of the feed being processed whose link had no row,
\* the rows stored before stay; and the update advances the feed's updatedAt.
C10_InsertsExactlyTheMissing ==
    /\ [](\A w \in BagToSet(workers) :
            w.pc = "stamp" =>
               \A i \in 1..Len(FetchAndParse(w.feed)) :
                  RowsWithLink(FetchAndParse(w.feed)[i]) = 1)
    /\ [][/\ articles' # articles =>
               \E w \in Creating :
                  /\ ~ArticleExists(ItemLink(w))
                  /\ articles' = Append(articles, Article(ItemLink(w), w.feed))
          /\ \A f \in Feeds :
               updatedAt'[f] # updatedAt[f] =>
                  /\ updatedAt'[f] > updatedAt[f]
                  /\ \E w \in BagToSet(workers) : w.pc = "stamp" /\ w.feed = f]_vars

\* A feed of 3 items, 2 of them stored before: it has been processed once
\* (its updatedAt has advanced) and exactly 1 article is new.
C10_Witness ==
    \E f \in Feeds :
       /\ Len(FetchAndParse(f)) = 3
       /\ Cardinality({k \in 1..Len(articles) : articles[k].at = 0}) = 2
       /\ Cardinality({k \in 1..Len(articles) : articles[k].at > 0}) = 1
       /\ Len(articles) = 3
       /\ updatedAt[f] > 1
       /\ \A g \in Feeds \ {f} : updatedAt[g] <= 1

Busy == {w \in BagToSet(workers) : w.feed # NoFeed}
Finishes(w) == w.feed # NoFeed /\ CopiesIn(w, workers') < CopiesIn(w, workers)
                  /\ CopiesIn(NewWorker(w.id), workers') > CopiesIn(NewWorker(w.id), workers)

\* C11: whenever a worker is done with a feed it dequeued, fetch succeeded
\* or not, the feed's updatedAt has advanced.
C11_ProcessingAdvancesUpdatedAt ==
    [][\A w \in Busy : Finishes(w) => updatedAt'[w.feed] > updatedAt[w.feed]]_vars

\* C12: the step in which Start succeeds launches one fetch cycle, with no
\* tick delivered by the new timer: the cycle does not wait for the timer.
C12_FirstCycleAtStart ==
    [][\A c \in Callers :
         (call[c].pc = "Start.spawn" /\ call'[c].pc = "idle" /\ call'[c].ret = "ok")
         => /\ CopiesIn(NewCycle, cycles') = CopiesIn(NewCycle, cycles) + 1
            /\ BagCardinality(cycles') = BagCardinality(cycles) + 1
            /\ ticker'.made /\ ~ticker'.pending]_vars

\* Start has returned nil and its fetch cycle has queried the repository and
\* is dispatching, while the timer has delivered no tick and the scheduling
\* loop has handled none (it has not left its first select).
C12_Witness ==
    /\ isRunning /\ ~ticker.pending /\ liveStarts = 1
    /\ \E c \in Callers : call[c].pc = "idle" /\ call[c].ret = "ok"
    /\ \E cy \in BagToSet(cycles) : cy.pc = "send"
    /\ BagCardinality(cycles) = 1
    /\ jobs.buf = <<>> /\ Busy = {}

ResizeApplies(c) == call[c].pc = "Resize.apply" /\ call'[c].pc = "idle"
Continues(w, v) == v.id = w.id /\ v.feed = w.feed /\ v.pc # "select"
LeavesJob(w) == w.feed # NoFeed /\ CopiesIn(w, workers') < CopiesIn(w, workers)

\* C19: on a running aggregator every tick the current timer has delivered
\* can be received by a scheduling loop, also after SetInterval has replaced
\* the timer: the next tick and the later ones start fetch cycles.
C19_TicksReachTheLoop ==
    (Alive /\ isRunning /\ ctx = "live" /\ ticker.made /\ ~ticker.stopped /\ ticker.pending)
        => \E l \in BagToSet(loops) : l.tk = "cur" /\ ~l.ctxOld

\* C20: a Resize leaves every worker that holds a dequeued feed as it is, and
\* a worker holding a feed only ever moves on by carrying out the next step
\* of that feed's processing itself, up to the return to its select.
C20_ResizeKeepsJobsInFlight ==
    /\ [][\A c \in Callers : ResizeApplies(c) =>
            \A w \in Busy : CopiesIn(w, workers') >= CopiesIn(w, workers)]_vars
    /\ [][\A w \in Busy : LeavesJob(w) =>
            \E v \in BagToSet(workers') :
               /\ CopiesIn(v, workers') > CopiesIn(v, workers)
               /\ (Continues(w, v) \/ v = NewWorker(w.id))]_vars

\* A Resize to fewer workers has returned on a running aggregator while a
\* worker is in the middle of a feed.
C20_Witness ==
    /\ isRunning /\ call[OperatorThread].pc = "idle" /\ call[OperatorThread].ret = "ok"
    /\ workersCount < workerWg
    /\ \E w \in Busy : w.pc = "fetch" /\ w.id > workersCount

Range(q) == {q[i] : i \in 1..Len(q)}
Steps(cy) == CopiesIn(cy, cycles') < CopiesIn(cy, cycles)
Oldest(fs) == \A f \in fs : \A g \in Feeds \ fs : Older(f, g)

\* C13: a cycle asks the repository for as many feeds as the worker count it
\* reads when it begins and gets that many (all, when there are fewer), none
\* newer than a feed left out; a Resize to a larger count on a running
\* aggregator whose workers match the old count leaves exactly the new count
\* of workers live, and the cycle that begins next asks for the new count.
C13_CycleRequestsWorkerCount ==
    /\ [][\A cy \in BagToSet(cycles) : (cy.pc = "read" /\ Steps(cy)) =>
            BagIn([cy EXCEPT !.pc = "query", !.n = workersCount], cycles')]_vars
    /\ [][\A cy \in BagToSet(cycles) : (cy.pc = "query" /\ Steps(cy)) =>
            \E fs \in SUBSET Feeds :
               /\ Cardinality(fs) = Min2(cy.n, Cardinality(Feeds))
               /\ Oldest(fs)
               /\ \/ fs = {} /\ BagCardinality(cycles') < BagCardinality(cycles)
                  \/ \E c2 \in BagToSet(cycles') :
                        c2.pc = "send" /\ c2.n = cy.n /\ Range(c2.feeds) = fs
                        /\ Len(c2.feeds) = Cardinality(fs)]_vars
    /\ [][\A c \in Callers :
            (ResizeApplies(c) /\ call[c].run /\ isRunning /\ ctx = "live"
               /\ workerWg = workersCount /\ call[c].arg > workersCount)
            => workersCount' = call[c].arg /\ workerWg' = call[c].arg]_vars

\* Started with one worker (a queue of QueueFactor places), resized to two:
\* two workers are live and a cycle has asked for two feeds and got both.
C13_Witness ==
    /\ isRunning /\ jobs.made /\ jobs.cap = QueueFactor
    /\ workersCount = 2 /\ workerWg = 2
    /\ call[OperatorThread].pc = "idle" /\ call[OperatorThread].ret = "ok"
    /\ \E cy \in BagToSet(cycles) : cy.pc = "send" /\ cy.n = 2 /\ Len(cy.feeds) = 2

QueueFull == jobs.made /\ ~jobs.closed /\ Len(jobs.buf) = jobs.cap
Dispatching == {cy \in BagToSet(cycles) : cy.pc = "send"}

\* C14: a cycle that is dispatching always has a step to take, whatever the
\* state of the job queue; with the queue full and the context live that
\* step drops the feed in hand, leaves the queue alone and moves to the next
\* feed; and every dispatching step leaves the cycle one feed shorter or
\* ends it, so the cycle terminates.
C14_CycleNeverBlocksOnQueue ==
    /\ [](Alive => \A cy \in Dispatching : ENABLED fetchFeeds(cy))
    /\ [][\A cy \in Dispatching : (Steps(cy) /\ QueueFull /\ ctx = "live") =>
            /\ cycles' = Drop(cy)
            /\ UNCHANGED <<jobs, workers>>]_vars
    /\ [][\A cy \in Dispatching : (Steps(cy) /\ Alive') =>
            \/ BagCardinality(cycles') < BagCardinality(cycles)
            \/ \E c2 \in BagToSet(cycles') :
                  /\ CopiesIn(c2, cycles') > CopiesIn(c2, cycles)
                  /\ c2.pc = "send" /\ Len(c2.feeds) = Len(cy.feeds) - 1]_vars

\* A cycle has dropped a feed on a full queue and has gone on to its next feed.
C14_Witness ==
    /\ QueueFull /\ ctx = "live"
    /\ \E cy \in Dispatching : Len(cy.dropped) = 1 /\ Len(cy.feeds) = 1

InItems == {w \in Busy : w.pc \in {"exists", "create"}}
NextOf(w, v) ==
    /\ v.id = w.id /\ v.feed = w.feed
    /\ \/ v.pc = "create" /\ v.idx = w.idx /\ w.pc = "exists"
       \/ v.pc = "exists" /\ v.idx = w.idx + 1
       \/ v.pc = "stamp" /\ w.idx = Len(FetchAndParse(w.feed))

\* C16: whatever fails (the fetch, the existence check, the insert, the
\* timestamp update), nothing panics, no worker and no scheduling loop ends,
\* Start's caller has nil or "already running" and no other error, a worker
\* that leaves an item goes to the insert of that item, to the next item or,
\* after the last one, to the timestamp update, and a worker holding a feed
\* ends up in its select again.
C16_ErrorsStayInsideTheWorker ==
    /\ [](Alive /\ \A c \in Callers : call[c].ret \in {"none", "pending", "ok", AlreadyRunning})
    /\ [][workerWg' >= workerWg /\ BagCardinality(loops') >= BagCardinality(loops)]_vars
    /\ [][\A w \in InItems : LeavesJob(w) =>
            \E v \in BagToSet(workers') :
               CopiesIn(v, workers') > CopiesIn(v, workers) /\ NextOf(w, v)]_vars
    /\ [][\A w \in Busy : (LeavesJob(w) /\ w.pc \in {"fetch", "stamp"}) =>
            \E v \in BagToSet(workers') :
               /\ CopiesIn(v, workers') > CopiesIn(v, workers)
               /\ (v = NewWorker(w.id) \/ (w.pc = "fetch" /\ v = NextItem(w)))]_vars

\* A worker is at the third item of a feed none of whose first two items
\* got a row: both failed, and the worker went on.
C16_Witness ==
    /\ Alive /\ isRunning /\ workerWg = workersCount /\ BagCardinality(loops) = 1
    /\ \E w \in InItems :
          /\ w.idx = 3 /\ w.cnt = 0
          /\ \A k \in 1..2 : ~ArticleExists(FetchAndParse(w.feed)[k])

ReadApply == {"readInterval", "readWorkers", "applyInterval", "applyWorkers"}
PastCheck == {"reset"} \cup ReadApply
Leaves(p, pc) == poll[p].pc = pc /\ poll'[p].pc # pc
Applied == <<interval, workersCount, workers, ticker>>

C18_OnePassPerFlagSetting ==
    \A p, q \in Pollers :
       (p # q /\ poll[p].pc \in PastCheck /\ poll[q].pc \in PastCheck)
          => poll[p].gen # poll[q].gen

Stopping(c) == call[c].pc \in StopBody
Stopped(c) == call[c].pc = "idle" /\ call[c].ret = "ok" /\ ~isRunning

\* C21: a Stop that has found the aggregator running eventually returns nil.
C21_StopEventuallyReturns ==
    \A c \in {LifecycleThread} : Stopping(c) ~> Stopped(c)

\* C27: the process never panics with a send on the closed job queue.
C27_NoSendOnClosedQueue == crashed # "send on closed channel"

TickDelivered == Alive /\ isRunning /\ ctx = "live" /\ ticker.made /\ ~ticker.stopped /\ ticker.pending

\* C28: on a running aggregator a tick the timer has delivered is eventually
\* taken from the timer's channel (by the scheduling loop, which then starts
\* a fetch cycle), whether or not SetInterval has replaced the timer.
C28_DeliveredTickIsReceived == TickDelivered ~> (~ticker.pending \/ ~Alive)

\* C29: the live workers of a running aggregator never outnumber the largest
\* worker count ever configured, which is at most MaxWorkersArg.
C29_LiveWorkersWithinConfigured == isRunning => workerWg <= MaxWorkersArg

Dispatched(f) ==
    \/ \E i \in 1..Len(jobs.buf) : jobs.buf[i] = f
    \/ \E w \in Busy : w.feed = f

\* C30: once the aggregator runs, every stored feed is eventually in the job
\* queue or in a worker's hands (unless the repository clock has reached the
\* point at which the timer of the model stops).
C30_EveryFeedEventuallyDispatched ==
    \A f \in 1..NumFeeds :
       (Alive /\ isRunning) ~> (Dispatched(f) \/ clock >= MaxClock \/ ~Alive)

Accepted(f) == SelectSeq(feedItems[f], LAMBDA l : l # NoLink)
FirstAt(q, l) == CHOOSE i \in 1..Len(q) : q[i] = l /\ \A j \in 1..(i - 1) : q[j] # l
Inserts(w) == w.pc = "create" /\ LeavesJob(w) /\ articles' # articles

\* C25: a worker's insert appends the row of the item it is at, which is the
\* item at that position among the accepted items of the fetched channel,
\* and the worker only moves forward through the items; so the rows of a
\* feed are stored in the order in which their items first appear in it.
C25_InsertsFollowItemOrder ==
    /\ [][\A w \in Busy : Inserts(w) =>
            /\ w.idx \in 1..Len(Accepted(w.feed))
            /\ articles' = Append(articles, Article(Accepted(w.feed)[w.idx], w.feed))]_vars
    /\ [][\A w \in InItems : LeavesJob(w) =>
            \E v \in BagToSet(workers') :
               /\ CopiesIn(v, workers') > CopiesIn(v, workers)
               /\ v.id = w.id /\ v.feed = w.feed /\ v.idx >= w.idx
               /\ (w.pc = "create" => v.idx > w.idx \/ v.pc = "stamp")]_vars
    /\ [](\A a, b \in 1..Len(articles) :
            a < b => FirstAt(Accepted(articles[a].feed), articles[a].link)
                       < FirstAt(Accepted(articles[b].feed), articles[b].link))

\* A channel with a refused item and links out of numerical order: the
\* worker has stored the rows of its first two accepted items, in that order.
C25_Witness ==
    /\ Len(articles) = 2 /\ articles[1].link > articles[2].link
    /\ \E i \in 1..Len(feedItems[1]) : feedItems[1][i] = NoLink
    /\ Accepted(1)[1] = articles[1].link
    /\ \E w \in Busy : w.pc = "stamp" /\ w.cnt = 2

\* C22: no Start, Stop, Resize or interval change holds an exclusive lock
\* (a.runningMu or a.mu) while one of its repository calls or its wait for
\* the workers is in progress.
InRepositoryCall(c) == call[c].pc \in {"Load.interval", "Load.workers"}
WaitingForWorkers(c) == call[c].pc = "Stop.wait" /\ workerWg > 0
C22_NoLockAcrossBlockingCall ==
    \A c \in Callers :
        (InRepositoryCall(c) \/ WaitingForWorkers(c)) => (runningMu # c /\ mu # c)

\* C24: once Start has loaded the settings, the interval and the worker count
\* are the stored ones where the stored text is present, parsable and valid
\* (an interval of a second or more, a positive count) and the constructor's
\* defaults otherwise; no stored setting makes Start fail; the queue holds
\* twice that worker count and that many workers are spawned.
DefaultInterval == Second + 1
DefaultWorkers == 1..MaxWorkersArg
ValidInterval(s) == s # Absent /\ s # Garbage /\ s >= Second
ValidWorkers(s) == s # Absent /\ s # Garbage /\ s > 0
Loaded == isRunning \/ \E c \in Callers : call[c].pc \in StartBody
C24_StartUsesValidSettingsOrDefaults ==
    /\ crashed # "non-positive interval for NewTicker"
    /\ Loaded =>
         /\ interval \in (IF ValidInterval(settings.interval)
                          THEN {settings.interval, DefaultInterval} ELSE {DefaultInterval})
         /\ workersCount \in (IF ValidWorkers(settings.workers)
                              THEN {settings.workers} \cup DefaultWorkers ELSE DefaultWorkers)
         /\ isRunning => jobs.cap = QueueFactor * workersCount
    /\ \A c \in Callers : call[c].pc = "Start.spawn" => workerWg = call[c].i

\* C23: the fetch command calls Stop only after a termination signal was
\* received and at most once, and it returns after a signal only when that
\* Stop has returned: no worker is left and the aggregator is stopped.
StopHasReturned == Returned(FetchThread) /\ call[FetchThread].ret = "ok"
C23_FetchReturnsAfterStop ==
    /\ fetch.stops <= 1
    /\ fetch.stops = 1 => fetch.got
    /\ (fetch.pc = "returned" /\ fetch.got) =>
          (fetch.stops = 1 /\ StopHasReturned /\ workerWg = 0 /\ ~isRunning)
C23_Witness ==
    /\ fetch.pc = "returned" /\ fetch.got /\ fetch.sent = MaxSignals
    /\ StopHasReturned /\ clock > 1

\* C26: a set-interval or set-workers command of the control-protocol CLI that
\* dials while no listener is bound returns the error saying that the
\* background process is not running; whatever its argument, a command run
\* while no listener is bound sends nothing and changes nothing of the aggregator.
Command == cli' # cli /\ cli'.cmd \in {"set-interval", "set-workers"} /\ cli.ret # "pending"
Dials == IF cli'.cmd = "set-interval"
         THEN cli'.arg # NoArg /\ ~ParseDuration(cli'.arg).err
         ELSE cli'.arg # NoArg /\ ~Sscanf(cli'.arg).err /\ Sscanf(cli'.arg).n > 0
C26_NoListenerMeansNotRunning ==
    [][(Command /\ ~control.bound) =>
          /\ Dials => cli'.ret = Unavailable
          /\ cli'.ret \notin {"pending", "OK", "ERR"}
          /\ control'.inbox = control.inbox /\ control'.bound = control.bound
          /\ UNCHANGED <<aggVars, goVars, call>>]_vars
C26_Witness ==
    /\ cli.cmd = "set-workers" /\ cli.ret = Unavailable
    /\ ~control.bound /\ isRunning /\ control.n = MaxCommands

\* C31: at any moment a feed is in the job queue or in a worker's hands at
\* most once.
Queued(f) == Cardinality({i \in 1..Len(jobs.buf) : jobs.buf[i] = f})
InFlight(f) == [w \in {x \in BagToSet(workers) : x.feed = f} |-> workers[w]]
C31_FeedDispatchedAtMostOnce ==
    \A f \in Feeds : Queued(f) + BagCardinality(InFlight(f)) <= 1

\* C32: the interval in effect is always strictly positive, and no timer is
\* ever created with a zero or negative period.
C32_IntervalAlwaysPositive ==
    interval > 0 /\ crashed # "non-positive interval for NewTicker"

\* C33: once the writers have finished, a running aggregator that keeps
\* polling ends up with the interval and the worker count the settings table
\* holds, where these are valid.
WritersDone == writer = IdleWriter /\ settings.sets = MaxWrites
Synced ==
    /\ ValidInterval(settings.interval) => interval = settings.interval
    /\ ValidWorkers(settings.workers) => workersCount = settings.workers
C33_NoSettingsUpdateLost ==
    (Alive /\ isRunning /\ WritersDone) ~> (Synced \/ ~Alive \/ ~isRunning)

\* C34: a writer sets the flag only after it has stored its value, a store
\* that fails leaves the table and the flag as they are, and a pass that has
\* seen the flag set reads the table when it holds at least the value of the
\* write that set the flag.
Reads(p) == Leaves(p, "readInterval") \/ Leaves(p, "readWorkers")
C34_ValueStoredBeforeFlag ==
    /\ [][settings'.sets > settings.sets =>
             /\ writer.pc = "flag" /\ settings.ver > settings.sets
             /\ settings'.ver = settings.ver]_vars
    /\ [][(writer' = FailedWriter /\ writer # FailedWriter) => UNCHANGED settings]_vars
    /\ [][settings'.ver > settings.ver => (writer'.pc = "flag" /\ settings'.sets = settings.sets
                                            /\ settings'.changed = settings.changed)]_vars
    /\ [][\A p \in Pollers : Reads(p) => (poll[p].gen >= 1 /\ settings.ver >= poll[p].gen)]_vars
C34_Witness ==
    /\ writer = FailedWriter
    /\ \E p \in Pollers : /\ poll[p].pc = "readWorkers"
                          /\ poll[p].gen = 1
                          /\ poll[p].newInterval = settings.interval
                          /\ settings.interval # Absent

ResizeSteps(c) ==
    \/ call[c].pc \in {"Resize.read", "Resize.apply"} /\ call'[c] # call[c]
    \/ call[c].pc = "idle" /\ call'[c].pc = "Resize.read"
    \/ /\ call[c].pc = "idle" /\ call'[c] # call[c]
       /\ call'[c] = Return(c, "workers count must be positive")[c]
MakesCycleCount(n) ==
    \E cy \in BagToSet(cycles') :
        cy.pc = "query" /\ cy.n = n /\ CopiesIn(cy, cycles') > CopiesIn(cy, cycles)

\* C35: the job queue never holds more feeds than its capacity; the capacity
\* is set only by Start's make, to twice the worker count of that moment, and
\* no other step changes it; every step of a Resize leaves the queue, its
\* content and its capacity as they are, while a Resize that returns nil has
\* recorded its argument as the worker count, and a cycle that reads the
\* count asks for that many feeds.
C35_QueueCapacityFixedAtStart ==
    /\ [](jobs.made => Len(jobs.buf) <= jobs.cap)
    /\ [][jobs'.cap # jobs.cap =>
            /\ \E c \in Callers : call[c].pc = "Start.make" /\ call'[c].pc = "Start.spawn"
            /\ jobs'.cap = QueueFactor * workersCount /\ jobs'.buf = <<>>]_vars
    /\ [][\A c \in Callers : ResizeSteps(c) => jobs' = jobs]_vars
    /\ [][\A c \in Callers : ResizeApplies(c) => workersCount' = call[c].arg]_vars
    /\ [][(\E cy \in BagToSet(cycles) : cy.pc = "read") /\ cycles' # cycles
            /\ BagCardinality(cycles') = BagCardinality(cycles)
            /\ (\E cy \in BagToSet(cycles') : cy.pc = "query" /\ CopiesIn(cy, cycles') > CopiesIn(cy, cycles))
          => MakesCycleCount(workersCount)]_vars

\* Started with one worker, resized to two while running: the queue still has
\* QueueFactor places, all of them taken by the two feeds of a cycle that asked
\* for two.
C35_Witness ==
    /\ isRunning /\ workersCount = 2 /\ workerWg = 2
    /\ call[OperatorThread].pc = "idle" /\ call[OperatorThread].ret = "ok"
    /\ jobs.cap = QueueFactor /\ Len(jobs.buf) = jobs.cap
    /\ jobs.buf[1] # jobs.buf[2]

StartReturns(c) == call[c].pc = "Start.spawn" /\ call'[c] = Return(c, "ok")[c]
FreshRun == ctx = "live" /\ jobs.made /\ ~jobs.closed /\ workerWg = workersCount

\* C36: every Start that returns nil, the first one and one that follows a Stop
\* alike, leaves a live context, an open job queue and exactly workersCount
\* live workers; and the queue Start has made stays empty until Start has
\* started the run's scheduling loop and first fetch cycle: no goroutine of
\* an earlier run puts a feed into it.
C36_RestartIsFresh ==
    /\ [][\A c \in Callers : StartReturns(c) => FreshRun']_vars
    /\ [](\A c \in Callers : call[c].pc = "Start.spawn" => jobs.buf = <<>>)

SetIntervalSteps(c) ==
    \/ call[c].pc = "idle" /\ call'[c].pc = "SetInterval.read"
    \/ call[c].pc = "SetInterval.read" /\ call'[c] # call[c]
NothingSpawned == UNCHANGED <<workers, loops, cycles>>
NoTimerMade == UNCHANGED ticker

\* C37: on a stopped aggregator, every step of a Resize with a positive
\* argument starts no goroutine and makes no timer, and its last step records
\* the argument as the worker count and changes nothing else of the
\* aggregator; every step of a SetInterval starts no goroutine and makes no
\* timer; the SetInterval and Resize a polling pass calls behave alike, the
\* SetInterval returning "aggregator is not running" with the interval as it
\* was; and a Start that returns nil has spawned one worker in each iteration
\* of its loop, as many as the recorded count.
C37_StoppedReconfigureOnlyRecords ==
    /\ [][\A c \in Callers : (ResizeSteps(c) /\ ~isRunning) =>
            /\ NothingSpawned /\ NoTimerMade
            /\ UNCHANGED <<interval, isRunning, ctx, jobs, crashed>>
            /\ workersCount' = (IF ResizeApplies(c) THEN call[c].arg ELSE workersCount)
            /\ ResizeApplies(c) => (call[c].arg > 0 /\ call'[c].ret = "ok")]_vars
    /\ [][\A c \in Callers : (SetIntervalSteps(c) /\ ~isRunning) =>
            /\ NothingSpawned /\ NoTimerMade
            /\ UNCHANGED <<workersCount, isRunning, ctx, jobs, crashed>>
            /\ call[c].pc = "SetInterval.read" => call'[c].ret = "ok"]_vars
    /\ [][\A p \in Pollers : (Leaves(p, "applyInterval") /\ ~isRunning) =>
            /\ NothingSpawned /\ NoTimerMade /\ UNCHANGED <<interval, workersCount>>
            /\ poll[p].newInterval > 0 => poll'[p].err = "aggregator is not running"]_vars
    /\ [][\A p \in Pollers : (Leaves(p, "applyWorkers") /\ ~isRunning) =>
            /\ UNCHANGED <<workers, cycles, ticker, interval>>
            /\ workersCount' = (IF poll[p].newWorkers > 0 THEN poll[p].newWorkers
                                ELSE workersCount)]_vars
    /\ [][\A c \in Callers :
            /\ (call[c].pc = "Start.spawn" /\ call'[c].pc = "Start.spawn"
                  /\ call'[c].i # call[c].i)
               => (call'[c].i = call[c].i + 1 /\ workerWg' = workerWg + 1)
            /\ StartReturns(c) => (call[c].i = workersCount /\ workers' = workers)]_vars

\* After a Stop the thread has set the interval to 1 and the worker count to 2
\* on the stopped aggregator, which has no live worker and keeps its stopped
\* timer; the pass the monitor began before the Stop has called SetInterval
\* with the stored interval and got the error, the interval still being 1.
C37_Witness ==
    /\ ~isRunning /\ workerWg = 0 /\ ticker.made /\ ticker.stopped
    /\ interval = 1 /\ workersCount = 2
    /\ call[LifecycleThread].pc = "idle" /\ call[LifecycleThread].ret = "ok"
    /\ poll["monitor"].pc = "applyWorkers"
    /\ poll["monitor"].newInterval = Second
    /\ poll["monitor"].err = "aggregator is not running"

====
